---------------------------- MODULE Spec2Model ----------------------------
(***************************************************************************)
(* A model of the runtime core of jellyfin-apiclient-python: the request   *)
(* pipeline (http.py), the credential store and the connection manager     *)
(* (connection_manager.py, credentials), the URL helpers (api.py), the     *)
(* time-sync estimator (timesync_manager.py) and the websocket transport   *)
(* with its keepalive ticker (ws_client.py, keepalive.py).                 *)
(*                                                                         *)
(* Each subsystem has its own specification (SpecHttp, SpecCred, SpecUser, *)
(* SpecTime, SpecUrl, SpecWs) over the shared variables; a specification   *)
(* leaves the variables of the other subsystems at their initial values.   *)
(***************************************************************************)
EXTENDS Integers, Sequences, FiniteSets, TLC

VARIABLES
    \* ---- request pipeline (HTTP.request) ----
    httpPc,        \* "idle" | "running" | "done": position of HTTP.request
    request,       \* the request descriptor as the caller passed it
    retry,         \* the local `retry` of HTTP.request
    data,          \* the request descriptor `data` (keys still present)
    attemptLog,    \* one entry per call of self._requests: verb sent, response
    httpResult,    \* how HTTP.request ended: returned value or raised failure
    callbacks,     \* events handed to client.callback, in order
    stream,        \* HTTP.request: `stream`, a dest_file was passed
    dest_file,     \* the chunks written to dest_file by the current request
    config,        \* client.config.data: a mapping of the keys that are present
    \* ---- credential store (Credentials / ConnectionManager) ----
    credentials,   \* credentials['Servers']: the ordered list of server records
    now,           \* the wall clock read by datetime.now(), in whole seconds
    lastOp,        \* the last credential-store operation, its argument and result
    server_id,     \* ConnectionManager.server_id (client.auth.server_id)
    \* ---- time sync (TimeSyncManager) ----
    measurements,  \* TimeSyncManager.measurements
    measurement,   \* TimeSyncManager.measurement (NoMeasurement for None)
    tsLast,        \* the last time-sync operation and its argument
    polling_interval, \* TimeSyncManager.polling_interval, in seconds
    pings,         \* TimeSyncManager.pings
    timesync_thread, \* TimeSyncManager.timesync_thread: "thread" or None
    running,       \* the number of _TimeSyncThread threads that are alive
    probed,        \* successful probes since the poller was created or reset
    pollLast,      \* the last poller operation and the interval it waited
    subscribers,   \* TimeSyncManager.subscribers
    notified,      \* the calls the last _notify_subscribers made, in order
    \* ---- URL helpers (_normalize_address, jellyfin_url) ----
    urlIn,         \* the parts the input text was written from
    urlText,       \* the input text handed to the function
    urlOut,        \* the text the function returned
    urlOp,         \* which function has been applied, and how often
    \* ---- websocket transport and keepalive ticker ----
    wsTime,        \* the clock the ticker's waits are measured on
    wsc,           \* WSClient.wsc: the socket, "open" or "closed"
    stop,          \* WSClient.stop
    multi_client,  \* WSClient.multi_client
    global_stop,   \* WSClient.global_stop, the class attribute
    global_wsc,    \* WSClient.global_wsc, the class attribute
    self_global_stop, \* the instance attribute global_stop: <<>> while not set
    self_global_wsc,  \* the instance attribute global_wsc: <<>> while not set
    runPc,         \* position of WSClient.run: "unstarted" | "serving" | "exited"
    peer,          \* a second WSClient of the process: its run() and its socket
    message_ids,   \* WSClient.message_ids
    keepalive,     \* WSClient.keepalive: index of the current ticker, 0 for None
    tickers,       \* every KeepAlive thread created so far
    inbound,       \* the messages handed to on_message, with their time
    sent,          \* frames passed to WSClient.send, with time and sender
    wsPc,          \* position of the socket thread inside on_message
    stopPc,        \* position of the thread that calls stop_client
    \* ---- client facade (JellyfinClient) ----
    logged_in,     \* JellyfinClient.logged_in
    session,       \* HTTP.session: "session" or None
    keep_alive,    \* HTTP.keep_alive
    clientOp       \* the last call of JellyfinClient.start and what it raised

streamVars == <<stream, dest_file>>
httpVars == <<httpPc, request, retry, data, attemptLog, httpResult, callbacks, streamVars>>
credVars == <<now, lastOp, server_id>>
subVars  == <<subscribers, notified>>
pollVars == <<polling_interval, pings, timesync_thread, running, probed, pollLast, subVars>>
timeVars == <<measurements, measurement, tsLast, pollVars>>
urlVars  == <<urlIn, urlText, urlOut, urlOp>>
wsVars   == <<wsTime, wsc, stop, multi_client, global_stop, global_wsc,
              self_global_stop, self_global_wsc, runPc, peer, message_ids,
              keepalive, tickers, inbound, sent, wsPc, stopPc>>
clientVars == <<logged_in, session, keep_alive, clientOp>>
vars     == <<httpVars, config, credentials, credVars, timeVars, urlVars, wsVars,
              clientVars>>

\* The class attributes of WSClient, the instance attributes that shadow
\* them, and the run loop with the second instance.
wsClass  == <<global_stop, global_wsc>>
wsSelf   == <<self_global_stop, self_global_wsc>>
wsRun    == <<runPc, peer>>

\* Python's None, where a field or a result holds it.
None == "None"

(***************************************************************************)
(* Small helpers over sequences and mappings.                              *)
(***************************************************************************)
Range(s) == {s[i] : i \in DOMAIN s}

\* A mapping with key k set to v (dict[k] = v), k present or not.
SetKey(d, k, v) == [x \in (DOMAIN d) \cup {k} |-> IF x = k THEN v ELSE d[x]]

\* dict.get(k, default)
Get(d, k, default) == IF k \in DOMAIN d THEN d[k] ELSE default

\* A mapping without key k (dict.pop(k, ...) seen from the dict).
DropKey(d, k) == [x \in (DOMAIN d) \ {k} |-> d[x]]

\* F applied to the value of v, v being evaluated once.
Bind(v, F(_)) == CHOOSE y \in {F(x) : x \in {v}} : TRUE

(***************************************************************************)
(* Request pipeline: HTTP.request                                          *)
(***************************************************************************)

\* http.py:110  retry = data.pop('retry', 5)
DefaultRetry == 5

\* The largest retry budget a caller passes in data['retry'] in this model.
MaxBudget == 2

\* What one call of self._requests(...) followed by r.raise_for_status() can do.
Responses ==
    {"ok", "ok_nojson", "ConnectionError", "ReadTimeout", "401+X-Application-Error-Code",
     "401", "500", "502", "404", "MissingSchema"}

Verbs == {"GET", "POST"}

\* data.pop('retry', 5)
PopRetry(d) == Get(d, "retry", DefaultRetry)

\* data.pop('type', "GET"): the verb handed to _requests by this attempt
PopType(d) == Get(d, "type", "GET")

\* `if retry:` -- Python truth of the remaining budget
RetryLeft_StopsOneEarly(r) == r > 1
RetryLeft_AlsoAtZero(r) == r >= 0
RetryLeft(r) == r # 0

\* `elif r.status_code == 500:` (http.py:169); a status that takes none of the
\* branches reaches `raise HTTPException(r.status_code, error)`.
Is500_Never(resp) == FALSE
Is500(resp) == resp = "500"

\* {'ServerId': self.config.data['auth.server-id']}: the lookup raises KeyError
\* when the key is not in config.data, before client.callback is entered.
HasServerId(cfg) == "auth.server-id" \in DOMAIN cfg

\* ConnectionManager.revoke_token (connection_manager.py:56-63).  Its first
\* statement subscripts the manager itself, self['server'], and ConnectionManager
\* defines no __getitem__: the statement raises TypeError and nothing after it
\* runs, so neither the server records nor config 'auth.token' change.
revoke_token(servers, cfg) ==
    [raised |-> "TypeError", servers |-> servers, config |-> cfg]

\* One pass of the `while True` loop of HTTP.request for a given response:
\* the outcome as a record
\*   next: "continue" | "return" | "raise";  value: what is returned or raised
\*   retry, cb (events appended), servers, config: the state afterwards
AttemptOutcome(resp, r, cfg, servers) ==
    LET same(nxt, val, cbs) ==
            [next |-> nxt, value |-> val, retry |-> r, cb |-> cbs,
             servers |-> servers, config |-> cfg]
        again == [next |-> "continue", value |-> None, retry |-> r - 1, cb |-> <<>>,
                  servers |-> servers, config |-> cfg]
    IN  CASE resp = "ConnectionError" ->
               IF RetryLeft(r) THEN again
               ELSE IF ~HasServerId(cfg) THEN same("raise", "KeyError", <<>>)
               ELSE same("raise", "ServerUnreachable", <<"ServerUnreachable">>)
          [] resp = "ReadTimeout" ->
               IF RetryLeft(r) THEN again
               ELSE same("raise", "ReadTimeout", <<>>)
          [] resp = "401+X-Application-Error-Code" ->
               IF ~HasServerId(cfg) THEN same("raise", "KeyError", <<>>)
               ELSE same("raise", "AccessRestricted", <<"AccessRestricted">>)
          [] resp = "401" ->
               IF ~HasServerId(cfg) THEN same("raise", "KeyError", <<>>)
               ELSE LET rv == revoke_token(servers, cfg)
                    IN  [next |-> "raise",
                         value |-> IF rv.raised # None THEN rv.raised ELSE "Unauthorized",
                         retry |-> r, cb |-> <<"Unauthorized">>,
                         servers |-> rv.servers, config |-> rv.config]
          [] resp = "500" ->
               IF Is500(resp) THEN same("return", None, <<>>)
               ELSE same("raise", "HTTPError", <<>>)
          [] resp = "502" ->
               IF RetryLeft(r) THEN again
               ELSE same("raise", "HTTPError", <<>>)
          [] resp = "404" -> same("raise", "HTTPError", <<>>)
          [] resp = "MissingSchema" -> same("raise", "MissingSchema", <<>>)
          [] resp = "ok" ->
               [next |-> "return", value |-> "response", retry |-> r, cb |-> <<>>,
                servers |-> servers, config |-> SetKey(cfg, "server-time", "Date")]
          [] resp = "ok_nojson" ->
               [next |-> "return", value |-> None, retry |-> r, cb |-> <<>>,
                servers |-> servers, config |-> SetKey(cfg, "server-time", "Date")]

(***************************************************************************)
(* HTTP._request and what it calls.  A text is a sequence of pieces; each  *)
(* of the tokens {server}, {UserId}, {DeviceId} is one piece, "" is <<>>.  *)
(* A value of params or of the json body is tagged with its Python type.   *)
(***************************************************************************)
Str(s)   == [t |-> "str", v |-> s]
Dict(m)  == [t |-> "dict", v |-> m]
Other(x) == [t |-> "other", v |-> x]

\* str.replace(token, value)
RECURSIVE Replace(_, _, _)
Replace(string, token, value) ==
    IF string = <<>> THEN <<>>
    ELSE (IF Head(string) = token THEN value ELSE <<Head(string)>>)
            \o Replace(Tail(string), token, value)

\* `if self.config.data.get(key, None):` -- the key is there and its text is
\* not empty.
IsSet(cfg, key) == key \in DOMAIN cfg /\ cfg[key] # <<>>

\* One of the three `if token in string: if config.data.get(key): replace`.
ReplaceIfSet(string, token, key, cfg) ==
    IF token \in Range(string) /\ IsSet(cfg, key)
    THEN Replace(string, token, cfg[key])
    ELSE string

\* HTTP._replace_user_info (http.py:58-78)
_replace_user_info(string, cfg) ==
    Bind(Bind(ReplaceIfSet(string, "{server}", "auth.server", cfg),
              LAMBDA s1 : ReplaceIfSet(s1, "{UserId}", "auth.user_id", cfg)),
         LAMBDA s2 : ReplaceIfSet(s2, "{DeviceId}", "app.device_id", cfg))

\* HTTP._process_params (http.py:219-228): mappings are entered, texts are
\* replaced, every other value (a number, a list) is left as it is.
_process_params_TopLevelOnly(params, cfg) ==
    [key \in DOMAIN params |->
        IF params[key].t = "str"
        THEN Str(_replace_user_info(params[key].v, cfg))
        ELSE params[key]]
RECURSIVE _process_params(_, _)
_process_params(params, cfg) ==
    [key \in DOMAIN params |->
        CASE params[key].t = "dict" -> Dict(_process_params(params[key].v, cfg))
          [] params[key].t = "str"  -> Str(_replace_user_info(params[key].v, cfg))
          [] OTHER                  -> params[key]]

\* HTTP._get_authenication_header (http.py:230-242): the scheme and the
\* key="value" pairs that follow it.
_get_authenication_header(cfg) ==
    LET device == IF "app.device_name" \in DOMAIN cfg
                  THEN [k \in {"Client", "Device", "DeviceId", "Version"} |->
                          CASE k = "Client"   -> cfg["app.name"]
                            [] k = "Device"   -> cfg["app.device_name"]
                            [] k = "DeviceId" -> cfg["app.device_id"]
                            [] k = "Version"  -> cfg["app.version"]]
                  ELSE <<>>
    IN  [scheme |-> "MediaBrowser",
         params |-> IF "auth.token" \in DOMAIN cfg
                    THEN SetKey(device, "Token", cfg["auth.token"])
                    ELSE device]

\* f"{app.name}/{app.version}" with the defaults of http.py:245
app_name(cfg) ==
    <<Get(cfg, "app.name", "Jellyfin for Kodi"), "/", Get(cfg, "app.version", "0.0.0")>>

\* HTTP._get_default_headers (http.py:244-254)
_get_default_headers(cfg) ==
    [k \in {"Accept", "Content-type", "X-Application", "Accept-Charset",
            "Accept-encoding", "User-Agent", "Authorization"} |->
        CASE k = "Accept"          -> "application/json"
          [] k = "Content-type"    -> "application/json"
          [] k = "X-Application"   -> app_name(cfg)
          [] k = "Accept-Charset"  -> "UTF-8,*"
          [] k = "Accept-encoding" -> "gzip"
          [] k = "User-Agent"      -> IF cfg["http.user_agent"] # None
                                      THEN cfg["http.user_agent"]
                                      ELSE app_name(cfg)
          [] k = "Authorization"   -> _get_authenication_header(cfg)]

\* http.py:207-208: without data['url'] the URL is "<auth.server>/<handler>",
\* and data['handler'] is popped.
RequestUrl(d, cfg) ==
    IF "url" \in DOMAIN d THEN d
    ELSE SetKey(DropKey(d, "handler"), "url",
                Get(cfg, "auth.server", <<>>) \o <<"/">> \o Get(d, "handler", <<>>))

\* http.py:210-212: headers, timeout and verify.  No descriptor of this model
\* carries a false timeout or verify, so `x or y` is x when the key is there.
RequestDefaults(d, cfg) ==
    [k \in (DOMAIN d) \cup {"headers", "timeout", "verify"} |->
        CASE k = "headers" -> _get_default_headers(cfg)
          [] k = "timeout" -> IF "timeout" \in DOMAIN d THEN d["timeout"]
                              ELSE cfg["http.timeout"]
          [] k = "verify"  -> IF "verify" \in DOMAIN d THEN d["verify"]
                              ELSE Get(cfg, "auth.ssl", FALSE)
          [] OTHER         -> d[k]]

\* http.py:213-215: the tokens of the URL, of params and of the json body.
RequestSubstituted(d, cfg) ==
    [k \in DOMAIN d |->
        CASE k = "url" -> _replace_user_info(d[k], cfg)
          [] k \in {"params", "json"} -> _process_params(d[k], cfg)
          [] OTHER -> d[k]]

\* HTTP._request (http.py:205-217)
_request(d, cfg) ==
    Bind(Bind(RequestUrl(d, cfg), LAMBDA d1 : RequestDefaults(d1, cfg)),
         LAMBDA d2 : RequestSubstituted(d2, cfg))

\* The headers a caller puts in data['headers'].
CallerHeaders == [k \in {"Accept"} |-> "text/plain"]

\* The request descriptor a caller passes: data['type'] = verb unless verb is
\* "absent", data['retry'] = budget when hasRetry, data['headers'] =
\* CallerHeaders when hasHeaders.
RequestData(verb, hasRetry, budget, hasHeaders) ==
    LET t == IF verb = "absent" THEN <<>> ELSE [k \in {"type"} |-> verb]
        r == IF hasRetry THEN SetKey(t, "retry", budget) ELSE t
    IN  IF hasHeaders THEN SetKey(r, "headers", CallerHeaders) ELSE r

\* HTTP.request up to the loop: data = self._request(data); retry = data.pop('retry', 5)
HttpRequest(d) ==
    /\ httpPc = "idle"
    /\ httpPc' = "running"
    /\ request' = d
    /\ retry' = PopRetry(d)
    /\ data' = DropKey(_request(d, config), "retry")
    /\ attemptLog' = <<>>
    /\ httpResult' = [kind |-> "none", value |-> None]
    /\ stream' = FALSE
    /\ dest_file' = <<>>
    /\ UNCHANGED <<callbacks, config, credentials>>
    /\ UNCHANGED <<credVars, timeVars, urlVars, clientVars, wsVars>>

\* HTTP.request(data, dest_file=f) up to the loop, f an empty file:
\* stream = dest_file is not None.
HttpRequestTo(d) ==
    /\ httpPc = "idle"
    /\ httpPc' = "running"
    /\ request' = d
    /\ retry' = PopRetry(d)
    /\ data' = DropKey(_request(d, config), "retry")
    /\ attemptLog' = <<>>
    /\ httpResult' = [kind |-> "none", value |-> None]
    /\ stream' = TRUE
    /\ dest_file' = <<>>
    /\ UNCHANGED <<callbacks, config, credentials>>
    /\ UNCHANGED <<credVars, timeVars, urlVars, clientVars, wsVars>>

\* The calls that end with a response r; the others raise inside _requests.
Answered == {"ok", "ok_nojson", "401+X-Application-Error-Code", "401", "500", "502", "404"}

\* The answers with a status that r.raise_for_status() lets pass.
Passed == {"ok", "ok_nojson"}

\* r.iter_content(chunk_size=8192): every answer of the model has a body of
\* one chunk, which is told from the others by the answer it came with and
\* by the attempt.
Chunks(resp, attempt) ==
    IF resp \in Answered THEN <<[of |-> resp, attempt |-> attempt]>> ELSE <<>>

\* Lines 116-121: with stream set the chunks of r are written to dest_file
\* as soon as _requests returns, before r.raise_for_status().
Written(streaming, file, resp, attempt) ==
    IF streaming THEN file \o Chunks(resp, attempt) ELSE file

\* Lines 189-190: a streamed request whose answer passed returns None before
\* 'server-time' is set and before r.json() is tried.
StreamedOutcome(streaming, resp, out, r, cfg, servers) ==
    IF streaming /\ resp \in Passed
    THEN [next |-> "return", value |-> None, retry |-> r, cb |-> <<>>,
          servers |-> servers, config |-> cfg]
    ELSE out

\* One pass of the loop: the call, then the except/else clause it ends in.
HttpAttempt(resp) ==
    /\ httpPc = "running"
    /\ UNCHANGED <<credVars, timeVars, urlVars, clientVars, wsVars>>
    /\ UNCHANGED stream
    /\ dest_file' = Written(stream, dest_file, resp, Len(attemptLog) + 1)
    /\ LET out == StreamedOutcome(stream, resp,
                                  AttemptOutcome(resp, retry, config, credentials),
                                  retry, config, credentials)
       IN  /\ attemptLog' = Append(attemptLog, [verb |-> PopType(data), resp |-> resp,
                                                headers |-> data["headers"]])
           /\ data' = DropKey(data, "type")
           /\ UNCHANGED request
           /\ retry' = out.retry
           /\ callbacks' = callbacks \o out.cb
           /\ config' = out.config
           /\ credentials' = out.servers
           /\ IF out.next = "continue"
              THEN /\ httpPc' = "running"
                   /\ UNCHANGED httpResult
              ELSE /\ httpPc' = "done"
                   /\ httpResult' = [kind |-> IF out.next = "return" THEN "returned"
                                              ELSE "raised",
                                     value |-> out.value]

\* The token a signed-in client holds, in config and on its server record.
HttpInitServers == << [Id |-> "s1", DateLastAccessed |-> 0, AccessToken |-> "tokA"] >>

\* http.timeout and http.user_agent are set when the client is configured
\* (lines 211 and 252 of http.py subscript them).
HttpTimeout == "http.timeout"

HttpInitConfig(hasServerId) ==
    [k \in {"auth.token", "http.timeout", "http.user_agent"}
            \cup (IF hasServerId THEN {"auth.server-id"} ELSE {}) |->
        CASE k = "auth.token"      -> "tokA"
          [] k = "http.timeout"    -> HttpTimeout
          [] k = "http.user_agent" -> None
          [] k = "auth.server-id"  -> "s1"]

HttpInitConfigs == {HttpInitConfig(FALSE), HttpInitConfig(TRUE)}

HttpIdle ==
    /\ httpPc = "idle"
    /\ request = <<>>
    /\ retry = 0
    /\ data = <<>>
    /\ attemptLog = <<>>
    /\ httpResult = [kind |-> "none", value |-> None]
    /\ callbacks = <<>>
    /\ stream = FALSE
    /\ dest_file = <<>>

(***************************************************************************)
(* Credential store: Credentials.add_update_server, add_update_user        *)
(* (credentials.py is not among the sources: these two are modelled from   *)
(* spec section 4.2 and from tests/test_credentials.py), and their callers *)
(* in ConnectionManager (modelled from connection_manager.py).             *)
(***************************************************************************)

\* The latest second the clock of the model reaches.
MaxClock == 1

ServerIds == {"s1", "s2"}
UserIds == {"u1", "u2"}

\* The fields add_update_server copies from a newer candidate
\* (spec 4.2 step 4; the fields of test_add_update_server_merges_data).
AllowedFields ==
    {"AccessToken", "UserId", "UserLinkType", "ExchangeToken", "ManualAddress",
     "LocalAddress", "Name", "LastConnectionMode", "ConnectServerId"}

\* The index of the first record of `servers` with this Id, 0 when there is none.
IndexOfId(servers, id) ==
    IF \E i \in DOMAIN servers : servers[i]["Id"] = id
    THEN CHOOSE i \in DOMAIN servers :
            /\ servers[i]["Id"] = id
            /\ \A j \in DOMAIN servers : servers[j]["Id"] = id => i <= j
    ELSE 0

\* The timestamp a candidate is compared by: its DateLastAccessed, or the
\* current time when it carries none (test_add_update_server_does_not_merge_if_newer
\* and test_add_update_server_does_not_merge_unknown_fields pass a candidate
\* without the field).
CandidateDate(server, t) == Get(server, "DateLastAccessed", t)

\* datetime.now().strftime('%Y-%m-%dT%H:%M:%SZ') at second t: a text of fixed
\* width that sorts as the seconds do, held as the second itself.  Without the
\* time of day every second of the model would give the text of second 0.
strftime_DateOnly(t) == 0
strftime(t) == t

\* Step 3 of add_update_server: the existing record wins when it is newer or equal.
ExistingWins_OnlyWhenNewer(existing, server, t) ==
    existing["DateLastAccessed"] > CandidateDate(server, t)
ExistingWins(existing, server, t) ==
    existing["DateLastAccessed"] >= CandidateDate(server, t)

\* Step 4 of add_update_server: the allowed fields of the candidate copied onto
\* the existing record, DateLastAccessed set to now.
MergeServer_CopiesEveryField(existing, server, t) ==
    [k \in (DOMAIN existing) \cup (DOMAIN server) |->
        IF k = "DateLastAccessed" THEN t
        ELSE IF k \in DOMAIN server THEN server[k]
        ELSE existing[k]]
MergeServer(existing, server, t) ==
    [k \in (DOMAIN existing) \cup ((DOMAIN server) \cap AllowedFields) |->
        IF k = "DateLastAccessed" THEN t
        ELSE IF k \in (DOMAIN server) \cap AllowedFields THEN server[k]
        ELSE existing[k]]

\* Credentials.add_update_server(servers, server) at time t: the list afterwards,
\* the record returned, and the failure raised (None when it returns).
add_update_server(servers, server, t) ==
    IF "Id" \notin DOMAIN server
    THEN [raised |-> "KeyError", servers |-> servers, ret |-> <<>>]
    ELSE LET i == IndexOfId(servers, server["Id"])
         IN  IF i = 0
             THEN LET added == SetKey(server, "DateLastAccessed", t)
                  IN  [raised |-> None, servers |-> Append(servers, added), ret |-> added]
             ELSE IF ExistingWins(servers[i], server, t)
             THEN [raised |-> None, servers |-> servers, ret |-> servers[i]]
             ELSE LET merged == MergeServer(servers[i], server, t)
                  IN  [raised |-> None,
                       servers |-> [servers EXCEPT ![i] = merged],
                       ret |-> merged]

\* Credentials.add_update_user(server, user): the server record afterwards.
add_update_user_AlwaysAppends(server, user) ==
    SetKey(server, "Users", Append(Get(server, "Users", <<>>), user))
add_update_user(server, user) ==
    LET users == Get(server, "Users", <<>>)
    IN  IF \E i \in DOMAIN users : users[i]["Id"] = user["Id"]
        THEN SetKey(server, "Users", users)
        ELSE SetKey(server, "Users", Append(users, user))

\* servers.sort(key=itemgetter('DateLastAccessed'), reverse=True): a stable
\* sort, records of equal date keep their order.
SortByDateDesc_Unsorted(servers) == servers
RECURSIVE SortByDateDesc(_)
SortByDateDesc(servers) ==
    IF Len(servers) <= 1 THEN servers
    ELSE LET rest == SortByDateDesc(Tail(servers))
             x == Head(servers)
             \* the sort is stable, also with reverse=True: x goes before the
             \* first record of rest that is not newer
             older == {i \in DOMAIN rest : rest[i]["DateLastAccessed"] <= x["DateLastAccessed"]}
             pos == IF older = {} THEN Len(rest) + 1
                    ELSE CHOOSE i \in older : \A j \in older : i <= j
         IN  SubSeq(rest, 1, pos - 1) \o <<x>> \o SubSeq(rest, pos, Len(rest))

\* The candidate records of the model: an Id (or none, id = "absent"), a
\* DateLastAccessed (or none, hasDate false), and any of a server name, which
\* is an allowed field, and an unknown field Foo.
Candidate(id, hasDate, date, fields) ==
    LET a == IF id = "absent" THEN <<>> ELSE [k \in {"Id"} |-> id]
        b == IF hasDate THEN SetKey(a, "DateLastAccessed", date) ELSE a
        c == IF "Name" \in fields THEN SetKey(b, "Name", "Test") ELSE b
    IN  IF "Foo" \in fields THEN SetKey(c, "Foo", "Bar") ELSE c

NoOp == [op |-> "none", cand |-> <<>>, raised |-> None, ret |-> <<>>]

\* A direct call Credentials.add_update_server(credentials['Servers'], server).
AddUpdateServer(server) ==
    LET r == add_update_server(credentials, server, now)
    IN  /\ credentials' = r.servers
        /\ lastOp' = [op |-> "add_update_server", cand |-> server,
                      raised |-> r.raised, ret |-> r.ret]
        /\ UNCHANGED <<now, server_id, config, httpVars, timeVars, urlVars, clientVars, wsVars>>

\* The loop of get_available_servers over the found servers; a KeyError of
\* add_update_server is caught and the server skipped.
RECURSIVE MergeFound(_, _, _)
MergeFound(servers, found, t) ==
    IF found = <<>> THEN servers
    ELSE MergeFound(add_update_server(servers, Head(found), t).servers, Tail(found), t)

\* ConnectionManager.get_available_servers, `found` being what
\* process_found_servers made of the discovery replies.
GetAvailableServers(found) ==
    /\ IF found = <<>> /\ credentials = <<>>
       THEN /\ UNCHANGED credentials
            /\ lastOp' = [op |-> "get_available_servers", cand |-> <<>>,
                          raised |-> None, ret |-> <<>>]
       ELSE LET servers == SortByDateDesc(MergeFound(credentials, found, now))
            IN  /\ credentials' = servers
                /\ lastOp' = [op |-> "get_available_servers", cand |-> <<>>,
                              raised |-> None, ret |-> servers]
    /\ UNCHANGED <<now, server_id, config, httpVars, timeVars, urlVars, clientVars, wsVars>>

\* A discovered server as process_found_servers builds it: Id, address, Name.
FoundServer(id) == [Id |-> id, address |-> "http://host:8096", Name |-> "Test"]

\* A second of wall-clock time passes.
Tick ==
    /\ now < MaxClock
    /\ now' = now + 1
    /\ UNCHANGED <<credentials, lastOp, server_id, config, httpVars, timeVars, urlVars, clientVars, wsVars>>

\* A direct call Credentials.add_update_user(server, user) on the i-th record.
AddUpdateUser(i, user) ==
    /\ i \in DOMAIN credentials
    /\ credentials' = [credentials EXCEPT ![i] = add_update_user(credentials[i], user)]
    /\ lastOp' = [op |-> "add_update_user", cand |-> user, raised |-> None,
                  ret |-> [index |-> i]]
    /\ UNCHANGED <<now, server_id, config, httpVars, timeVars, urlVars, clientVars, wsVars>>

\* ConnectionManager.login after its argument checks.  `resp` is what API.login
\* returned: <<>> for the empty dict of a failed call, else the response with
\* User.Id, AccessToken and ServerId.
Login(resp) ==
    /\ UNCHANGED <<now, server_id, httpVars, timeVars, urlVars, clientVars, wsVars>>
    /\ IF resp = <<>>
       THEN /\ lastOp' = [op |-> "login", cand |-> resp, raised |-> None, ret |-> <<>>]
            /\ UNCHANGED <<credentials, config>>
       ELSE LET i == IndexOfId(credentials, resp["ServerId"])
            IN  /\ config' = SetKey(SetKey(config, "auth.user_id", resp["UserId"]),
                                    "auth.token", resp["AccessToken"])
                /\ IF i = 0
                   THEN /\ lastOp' = [op |-> "login", cand |-> resp, raised |-> None,
                                      ret |-> <<>>]
                        /\ UNCHANGED credentials
                   ELSE LET found_server ==
                                SetKey(SetKey(SetKey(credentials[i],
                                    "DateLastAccessed", strftime(now)),
                                    "UserId", resp["UserId"]),
                                    "AccessToken", resp["AccessToken"])
                            stamped == [credentials EXCEPT ![i] = found_server]
                            \* found_server is the stored record itself
                            merged == add_update_server(stamped, found_server, now).servers
                            info == [Id |-> resp["UserId"], IsSignedInOffline |-> TRUE]
                        IN  /\ credentials' =
                                  [merged EXCEPT ![i] = add_update_user(merged[i], info)]
                            /\ lastOp' = [op |-> "login", cand |-> resp, raised |-> None,
                                          ret |-> resp]

\* What API.login returns on success.
LoginResponse(sid, uid) == [ServerId |-> sid, UserId |-> uid, AccessToken |-> "tokB"]

\* Two known servers, as a credential file holds them.
UserInitServers ==
    << [Id |-> "s1", DateLastAccessed |-> 0, Name |-> "Test"],
       [Id |-> "s2", DateLastAccessed |-> 0, Name |-> "Test"] >>

(***************************************************************************)
(* Time sync: Measurement and TimeSyncManager (timesync_manager.py)        *)
(***************************************************************************)

\* timesync_manager.py:8
number_of_tracked_measurements == 8

\* The largest round-trip delay of a measurement of the model.
MaxDelay == 2

\* measurement = None
NoMeasurement == <<>>

\* Measurement(request_sent, request_received, response_sent, response_received)
Measurement(request_sent, request_received, response_sent, response_received) ==
    [request_sent |-> request_sent, request_received |-> request_received,
     response_sent |-> response_sent, response_received |-> response_received]

\* Measurement.get_delay
get_delay(m) ==
    (m.response_received - m.request_sent) - (m.response_sent - m.request_received)

\* The probes of the model: sent at 0, answered by a server whose clock is
\* `skew` ahead and which takes one unit to answer, received after `delay` more.
Probe(delay, skew) == Measurement(0, skew, skew + 1, delay + 1)

\* One probe for every delay, and a second probe of delay 1 seen through
\* another clock skew.
Probes == {Probe(d, 0) : d \in 1..MaxDelay} \cup {Probe(1, 1)}

\* min(measurements, key=lambda x: x.get_delay()): the first measurement of the
\* smallest delay.
RECURSIVE MinByDelay(_)
MinByDelay(ms) ==
    IF Len(ms) = 1 THEN ms[1]
    ELSE LET best == MinByDelay(SubSeq(ms, 1, Len(ms) - 1))
             x == ms[Len(ms)]
         IN  IF get_delay(x) < get_delay(best) THEN x ELSE best

\* TimeSyncManager.update_time_offset(measurement): the window and the selected
\* measurement afterwards, and whether a measurement was popped.
update_time_offset_KeepsBestSeen(ms, cur, m) ==
    LET appended == Append(ms, m)
        over == Len(appended) > number_of_tracked_measurements
        window == IF over THEN Tail(appended) ELSE appended
    IN  [measurements |-> window,
         measurement |-> IF cur = NoMeasurement THEN m
                         ELSE IF get_delay(m) < get_delay(cur) THEN m ELSE cur,
         popped |-> over]
update_time_offset_DropsNewest(ms, cur, m) ==
    LET appended == Append(ms, m)
        over == Len(appended) > number_of_tracked_measurements
        window == IF over THEN SubSeq(appended, 1, Len(appended) - 1) ELSE appended
    IN  [measurements |-> window,
         measurement |-> MinByDelay(window),
         popped |-> over]
update_time_offset(ms, cur, m) ==
    LET appended == Append(ms, m)
        over == Len(appended) > number_of_tracked_measurements
        window == IF over THEN Tail(appended) ELSE appended
    IN  [measurements |-> window,
         measurement |-> MinByDelay(window),
         popped |-> over]

UpdateTimeOffset(m) ==
    LET r == update_time_offset(measurements, measurement, m)
    IN  /\ measurements' = r.measurements
        /\ measurement' = r.measurement
        /\ tsLast' = [op |-> "update_time_offset", m |-> m, popped |-> r.popped]
        /\ UNCHANGED <<pollVars, httpVars, config, credentials, credVars, urlVars, clientVars, wsVars>>

\* TimeSyncManager.reset_measurements
ResetMeasurements ==
    /\ measurement' = NoMeasurement
    /\ measurements' = <<>>
    /\ tsLast' = [op |-> "reset_measurements", m |-> NoMeasurement, popped |-> FALSE]
    /\ UNCHANGED <<pollVars, httpVars, config, credentials, credVars, urlVars, clientVars, wsVars>>

\* timesync_manager.py:9-11
polling_interval_greedy == 1
polling_interval_low_profile == 60
greedy_ping_count == 3

\* The most successful probes the model follows between two resets of the
\* poller.
MaxProbed == 6

\* The measurements utc_time brings back in the model of the poller.
PollProbes == {Probe(1, 0), Probe(2, 0)}

NoPoll == [op |-> "none", waited |-> 0]

\* _TimeSyncThread.run, lines 49-52: the interval and the ping count after a
\* measurement was taken in.
Greedy(interval, n) ==
    IF n > greedy_ping_count
    THEN [polling_interval |-> polling_interval_low_profile, pings |-> n]
    ELSE [polling_interval |-> interval, pings |-> n + 1]

\* A number of halves: the result of a division by 2.0.
Half(n) == [num |-> n, den |-> 2]

\* Measurement.get_offset
get_offset(m) ==
    Half((m.request_received - m.request_sent) + (m.response_sent - m.response_received))

\* Measurement.get_ping
get_ping(m) == Half(get_delay(m))

\* datetime.timedelta(0)
timedelta0 == [num |-> 0, den |-> 1]

\* TimeSyncManager.get_time_offset and TimeSyncManager.get_ping
get_time_offset(cur) == IF cur # NoMeasurement THEN get_offset(cur) ELSE timedelta0
manager_get_ping(cur) == IF cur # NoMeasurement THEN get_ping(cur) ELSE timedelta0

\* The callbacks of the model: one that returns and one that raises.
Subscribers == {"listener", "raiser"}
SubscriberRaises(s) == s = "raiser"

\* The orders in which a loop over the set can meet its members.
Orders(S) ==
    {o \in [1..Cardinality(S) -> S] : \A i, j \in 1..Cardinality(S) : o[i] = o[j] => i = j}

\* TimeSyncManager._notify_subscribers: the calls made when the loop meets the
\* subscribers in `order`; the exception of a subscriber is caught and logged.
RECURSIVE _notify_subscribers_StopsAtRaise(_, _)
_notify_subscribers_StopsAtRaise(order, cur) ==
    IF order = <<>> THEN <<>>
    ELSE LET call == [subscriber |-> Head(order), offset |-> get_time_offset(cur),
                      ping |-> manager_get_ping(cur)]
         IN  IF SubscriberRaises(Head(order)) THEN <<call>>
             ELSE <<call>> \o _notify_subscribers_StopsAtRaise(Tail(order), cur)
RECURSIVE _notify_subscribers(_, _)
_notify_subscribers(order, cur) ==
    IF order = <<>> THEN <<>>
    ELSE <<[subscriber |-> Head(order), offset |-> get_time_offset(cur),
            ping |-> manager_get_ping(cur)]>>
         \o _notify_subscribers(Tail(order), cur)

\* TimeSyncManager.subscribe_time_offset
SubscribeTimeOffset(s) ==
    /\ subscribers' = subscribers \cup {s}
    /\ pollLast' = [op |-> "subscribe_time_offset", waited |-> 0]
    /\ UNCHANGED <<measurements, measurement, tsLast, polling_interval, pings,
                   timesync_thread, running, probed, notified>>
    /\ UNCHANGED <<httpVars, config, credentials, credVars, urlVars, clientVars, wsVars>>

\* TimeSyncManager.remove_subscriber: set.remove raises KeyError for a
\* callback that is not subscribed.
RemoveSubscriber(s) ==
    /\ subscribers' = subscribers \ {s}
    /\ pollLast' = [op |-> IF s \in subscribers THEN "remove_subscriber"
                           ELSE "remove_subscriber: KeyError", waited |-> 0]
    /\ UNCHANGED <<measurements, measurement, tsLast, polling_interval, pings,
                   timesync_thread, running, probed, notified>>
    /\ UNCHANGED <<httpVars, config, credentials, credVars, urlVars, clientVars, wsVars>>

\* One turn of the loop of _TimeSyncThread.run whose utc_time call answered:
\* the wait of polling_interval seconds ended without halt being set, the
\* measurement was taken in, the ping count or the interval was moved, the
\* subscribers were notified.
PollerProbe(m, order) ==
    /\ running > 0
    /\ probed < MaxProbed
    /\ LET r == update_time_offset(measurements, measurement, m)
           g == Greedy(polling_interval, pings)
       IN  /\ measurements' = r.measurements
           /\ measurement' = r.measurement
           /\ tsLast' = [op |-> "update_time_offset", m |-> m, popped |-> r.popped]
           /\ polling_interval' = g.polling_interval
           /\ pings' = g.pings
           /\ notified' = _notify_subscribers(order, r.measurement)
    /\ probed' = probed + 1
    /\ pollLast' = [op |-> "probe", waited |-> polling_interval]
    /\ UNCHANGED <<timesync_thread, running, subscribers>>
    /\ UNCHANGED <<httpVars, config, credentials, credVars, urlVars, clientVars, wsVars>>

\* One turn of the loop whose utc_time call raised: the exception is logged
\* (lines 55-56) and the loop goes on.
PollerProbeFails ==
    /\ running > 0
    /\ pollLast' = [op |-> "probe_failed", waited |-> polling_interval]
    /\ UNCHANGED <<measurements, measurement, tsLast, polling_interval, pings,
                   timesync_thread, running, probed>>
    /\ UNCHANGED subVars
    /\ UNCHANGED <<httpVars, config, credentials, credVars, urlVars, clientVars, wsVars>>

\* TimeSyncManager.start_ping: what it does to timesync_thread and to the
\* number of live threads.
start_ping(thread, alive) ==
    IF thread = None THEN [timesync_thread |-> "thread", running |-> alive + 1]
    ELSE [timesync_thread |-> thread, running |-> alive]

\* TimeSyncManager.stop_ping: _TimeSyncThread.stop sets halt and joins the
\* thread, which has left its loop when stop returns.
stop_ping(thread, alive) ==
    IF thread # None THEN [timesync_thread |-> None, running |-> alive - 1]
    ELSE [timesync_thread |-> thread, running |-> alive]

StartPing ==
    /\ LET s == start_ping(timesync_thread, running)
       IN  /\ timesync_thread' = s.timesync_thread
           /\ running' = s.running
    /\ pollLast' = [op |-> "start_ping", waited |-> 0]
    /\ UNCHANGED <<measurements, measurement, tsLast, polling_interval, pings, probed>>
    /\ UNCHANGED subVars
    /\ UNCHANGED <<httpVars, config, credentials, credVars, urlVars, clientVars, wsVars>>

StopPing ==
    /\ LET s == stop_ping(timesync_thread, running)
       IN  /\ timesync_thread' = s.timesync_thread
           /\ running' = s.running
    /\ pollLast' = [op |-> "stop_ping", waited |-> 0]
    /\ UNCHANGED <<measurements, measurement, tsLast, polling_interval, pings, probed>>
    /\ UNCHANGED subVars
    /\ UNCHANGED <<httpVars, config, credentials, credVars, urlVars, clientVars, wsVars>>

\* TimeSyncManager.force_update (lines 112-117): stop_ping, the interval and
\* the ping count set back, start_ping.  The measurements are not touched.
ForceUpdate ==
    /\ LET stopped == stop_ping(timesync_thread, running)
           s == start_ping(stopped.timesync_thread, stopped.running)
       IN  /\ timesync_thread' = s.timesync_thread
           /\ running' = s.running
    /\ polling_interval' = polling_interval_greedy
    /\ pings' = 0
    /\ probed' = 0
    /\ pollLast' = [op |-> "force_update", waited |-> 0]
    /\ UNCHANGED <<measurements, measurement, tsLast>>
    /\ UNCHANGED subVars
    /\ UNCHANGED <<httpVars, config, credentials, credVars, urlVars, clientVars, wsVars>>

(***************************************************************************)
(* URL helpers: ConnectionManager._normalize_address and api.jellyfin_url. *)
(* A text is a sequence of one-character strings.                          *)
(***************************************************************************)

Slash == <<"/">>
SchemeSep == <<":", "/", "/">>
HttpText == <<"h", "t", "t", "p">>
HttpsText == <<"h", "t", "t", "p", "s">>
HostText == <<"h", "o", "s", "t">>

DigitChars == <<"0", "1", "2", "3", "4", "5", "6", "7", "8", "9">>

\* The index of the first occurrence of `sub` in `text`, 0 when there is none
\* (`sub in text`, str.find).
Find(text, sub) ==
    LET hits == {i \in 1..(Len(text) - Len(sub) + 1) :
                    SubSeq(text, i, i + Len(sub) - 1) = sub}
    IN  IF hits = {} THEN 0 ELSE CHOOSE i \in hits : \A j \in hits : i <= j

\* str.rstrip(c), str.lstrip(c), str.strip() for blanks
RECURSIVE rstrip(_, _)
rstrip(text, c) ==
    IF text # <<>> /\ text[Len(text)] = c
    THEN rstrip(SubSeq(text, 1, Len(text) - 1), c)
    ELSE text

RECURSIVE lstrip(_, _)
lstrip(text, c) ==
    IF text # <<>> /\ text[1] = c THEN lstrip(Tail(text), c) ELSE text

strip(text) == lstrip(rstrip(text, " "), " ")

\* int(digits) and str(n) for a port number
RECURSIVE DigitsToInt(_)
DigitsToInt(digits) ==
    IF digits = <<>> THEN 0
    ELSE LET last == digits[Len(digits)]
             v == (CHOOSE i \in 1..10 : DigitChars[i] = last) - 1
         IN  10 * DigitsToInt(SubSeq(digits, 1, Len(digits) - 1)) + v

RECURSIVE IntToDigits(_)
IntToDigits(n) ==
    IF n < 10 THEN <<DigitChars[n + 1]>>
    ELSE IntToDigits(n \div 10) \o <<DigitChars[(n % 10) + 1]>>

NoPort == -1

\* The authority "host[:port]" of a URL split at its colon.
ParseAuthority(authority) ==
    Bind(Find(authority, <<":">>), LAMBDA colon :
        IF colon = 0 THEN [host |-> authority, port |-> NoPort]
        ELSE [host |-> SubSeq(authority, 1, colon - 1),
              port |-> IF colon = Len(authority) THEN NoPort
                       ELSE DigitsToInt(SubSeq(authority, colon + 1, Len(authority)))])

\* What follows the scheme, "host[:port][path]", split at the first slash.
ParseAfterScheme(scheme, rest) ==
    Bind(Find(rest, Slash), LAMBDA cut :
        Bind(ParseAuthority(IF cut = 0 THEN rest ELSE SubSeq(rest, 1, cut - 1)),
             LAMBDA hp :
                [scheme |-> scheme, host |-> hp.host, port |-> hp.port,
                 path |-> IF cut = 0 THEN <<>> ELSE SubSeq(rest, cut, Len(rest))]))

\* urllib3.util.parse_url for a text "scheme://host[:port][path]" or, without
\* "://", "host[:port][path]": the scheme (<<>> for None), the host, the port
\* as a number (NoPort for None) and the path.
parse_url(text) ==
    Bind(Find(text, SchemeSep), LAMBDA sep :
        IF sep = 0 THEN ParseAfterScheme(<<>>, text)
        ELSE ParseAfterScheme(SubSeq(text, 1, sep - 1), SubSeq(text, sep + 3, Len(text))))

\* Url.url: the parts written out again
UrlText(url) ==
    url.scheme \o SchemeSep \o url.host
        \o (IF url.port = NoPort THEN <<>> ELSE <<":">> \o IntToDigits(url.port))
        \o url.path

\* if '://' not in address: address = 'http://' + address
WithScheme(address) ==
    IF Find(address, SchemeSep) = 0 THEN HttpText \o SchemeSep \o address ELSE address

\* if url.scheme is None: url = url._replace(scheme='http')
DefaultScheme(url) ==
    IF url.scheme = <<>> THEN [url EXCEPT !.scheme = HttpText] ELSE url

\* The two port rules of _normalize_address: port 80 of http and port 443 of
\* https are replaced by None.
StripDefaultPort_Strips80Always(url) ==
    IF url.port = 80 \/ (url.scheme = HttpsText /\ url.port = 443)
    THEN [url EXCEPT !.port = NoPort]
    ELSE url
StripDefaultPort(url) ==
    IF \/ (url.scheme = HttpText /\ url.port = 80)
       \/ (url.scheme = HttpsText /\ url.port = 443)
    THEN [url EXCEPT !.port = NoPort]
    ELSE url

\* ConnectionManager._normalize_address(address)
_normalize_address(address) ==
    Bind(parse_url(strip(WithScheme(address))), LAMBDA url0 :
        Bind(DefaultScheme(url0), LAMBDA url1 :
            Bind(StripDefaultPort(url1), LAMBDA url2 : UrlText(url2))))

\* api.jellyfin_url(client, handler), base being client.config.data['auth.server']
jellyfin_url_NoStrip(base, handler) == base \o Slash \o handler
jellyfin_url(base, handler) == rstrip(base, "/") \o Slash \o lstrip(handler, "/")

\* The most slashes at the end of a base address or at the start of a handler.
MaxSlashes == 2

\* n slashes
RECURSIVE Slashes(_)
Slashes(n) == IF n = 0 THEN <<>> ELSE Slash \o Slashes(n - 1)

\* The addresses of the model, from their parts: a scheme or none, the host,
\* a port or none, a path, and a trailing blank or none.
AddressSchemes == {<<>>, HttpText, HttpsText}
AddressPorts == {NoPort, 80, 443, 8096}
AddressPaths == {<<>>, Slash, <<"/", "w">>}

AddressText(a) ==
    (IF a.scheme = <<>> THEN <<>> ELSE a.scheme \o SchemeSep)
        \o a.host
        \o (IF a.port = NoPort THEN <<>> ELSE <<":">> \o IntToDigits(a.port))
        \o a.path
        \o (IF a.blank THEN <<" ">> ELSE <<>>)

\* The base addresses and handlers of the model, without the slashes at the
\* joint: "https://e.c" and the empty base, "Items/1" and the empty handler.
BaseCores == {<<>>, <<"h", "t", "t", "p", "s", ":", "/", "/", "e", ".", "c">>}
HandlerCores == {<<>>, <<"I", "t", "e", "m", "s", "/", "1">>}

\* A call self._normalize_address(urlText)
NormalizeAddress ==
    /\ urlOp = "none"
    /\ urlIn.kind = "address"
    /\ urlOut' = _normalize_address(urlText)
    /\ urlOp' = "normalized"
    /\ UNCHANGED <<urlIn, urlText>>
    /\ UNCHANGED <<httpVars, config, credentials, credVars, timeVars, wsVars, clientVars>>

\* The result normalized again, as connect_to_address does with an address
\* that process_found_servers normalized before.
NormalizeAgain ==
    /\ urlOp = "normalized"
    /\ urlText' = urlOut
    /\ urlOut' = _normalize_address(urlOut)
    /\ urlOp' = "normalized twice"
    /\ UNCHANGED urlIn
    /\ UNCHANGED <<httpVars, config, credentials, credVars, timeVars, wsVars, clientVars>>

\* A call jellyfin_url(client, handler) with urlText = <<base, handler>>
JellyfinUrl ==
    /\ urlOp = "none"
    /\ urlIn.kind = "join"
    /\ urlOut' = jellyfin_url(urlText[1], urlText[2])
    /\ urlOp' = "joined"
    /\ UNCHANGED <<urlIn, urlText>>
    /\ UNCHANGED <<httpVars, config, credentials, credVars, timeVars, wsVars, clientVars>>

(***************************************************************************)
(* Websocket transport and keepalive ticker: WSClient, KeepAlive           *)
(***************************************************************************)

\* The last instant of the model's clock.
MaxTime == 4

\* The timeouts a ForceKeepAlive message carries are 2, 4, .. 2 * MaxHalfTimeout.
MaxHalfTimeout == 2

\* The most messages the socket hands to on_message.
MaxMessages == 2

Timeouts == {2 * h : h \in 1..MaxHalfTimeout}

\* The inbound messages of the model: ForceKeepAlive with a timeout, without a
\* MessageId or with the MessageId "m1", and KeepAlive with the MessageId "m1".
Messages ==
    { [MessageType |-> "ForceKeepAlive", Data |-> t, DataKind |-> "number",
       MessageId |-> id] : t \in Timeouts, id \in {None, "m1"} }
    \cup { [MessageType |-> "KeepAlive", Data |-> 0, DataKind |-> "number",
            MessageId |-> "m1"] }

\* The inbound messages of the dispatch model: one ForceKeepAlive, one
\* KeepAlive, and messages of two other types.  DataKind is the JSON shape of
\* the message's Data: "absent" (no Data key), "null", "number" (Data
\* itself) or "dict" (the mapping {"ItemId": Data}).
DispatchMessages ==
    { [MessageType |-> "ForceKeepAlive", Data |-> 2, DataKind |-> "number",
       MessageId |-> None],
      [MessageType |-> "KeepAlive", Data |-> 0, DataKind |-> "number",
       MessageId |-> "m2"] }
    \cup { [MessageType |-> "Play", Data |-> 7, DataKind |-> kind, MessageId |-> id] :
             kind \in {"dict", "null"}, id \in {None, "m1"} }
    \cup { [MessageType |-> "LibraryChanged", Data |-> 7, DataKind |-> kind,
             MessageId |-> "m2"] : kind \in {"absent", "number"} }

\* An event handed to client.callback by the transport
WsEvent(event, payload) == [event |-> event, data |-> payload]


\* ws_client.py:109-114: the message carries a MessageId that is in message_ids
Seen_Never(msg, ids) == FALSE
Seen(msg, ids) == msg.MessageId # None /\ msg.MessageId \in ids

\* ws_client.py:116, 129-136: the data handed to the callback for a message of
\* another type: {} for no Data or null, {"value": Data} for Data that is no
\* mapping, and ServerId added unless config 'app.default' is true.
CallbackData(msg, cfg) ==
    LET d == CASE msg.DataKind \in {"absent", "null"} -> <<>>
               [] msg.DataKind = "dict" -> [k \in {"ItemId"} |-> msg.Data]
               [] OTHER -> [k \in {"value"} |-> msg.Data]
    IN  IF ~cfg["app.default"]
        THEN [k \in (DOMAIN d) \cup {"ServerId"} |->
                 IF k = "ServerId" THEN server_id ELSE d[k]]
        ELSE d

\* keepalive.py:19  self.trigger.wait(self.timeout/2): the length of one wait
\* (the timeouts of the model are even, so the division is exact).
Period_WholeTimeout(timeout) == timeout
Period(timeout) == timeout \div 2

\* KeepAlive(timeout, ws) followed by start(): a thread in its first wait.
\* `from` records the inbound message the ticker was created for.
KeepAlive(timeout, from) ==
    [timeout |-> timeout, halt |-> FALSE, state |-> "waiting",
     start |-> wsTime, wakeAt |-> wsTime + Period(timeout), from |-> from]

\* WSClient.send(message) at the present instant by thread `by`: 0 is the
\* socket thread, i > 0 the ticker tickers[i].
Frame(message, by) == [MessageType |-> message, time |-> wsTime, by |-> by]

\* KeepAlive.stop() up to its join: self.halt = True
Halt(ts, i) == [ts EXCEPT ![i].halt = TRUE]

\* Thread.join() returns once the thread has ended.
Joined(i) == tickers[i].state # "waiting"

\* WSClient.on_message for `msg`, up to its return or to the join inside
\* self.keepalive.stop().
OnMessage(msg) ==
    /\ wsc = "open"
    /\ wsPc.at = "idle"
    /\ Len(inbound) < MaxMessages
    /\ inbound' = Append(inbound, [msg |-> msg, time |-> wsTime])
    /\ IF Seen(msg, message_ids)
       THEN UNCHANGED <<message_ids, sent, tickers, keepalive, wsPc, callbacks>>
       ELSE /\ message_ids' = IF msg.MessageId = None THEN message_ids
                              ELSE message_ids \cup {msg.MessageId}
            /\ IF msg.MessageType = "ForceKeepAlive"
               THEN /\ sent' = Append(sent, Frame("KeepAlive", 0))
                    /\ IF keepalive = 0
                       THEN /\ tickers' = Append(tickers, KeepAlive(msg.Data, Len(inbound')))
                            /\ keepalive' = Len(tickers')
                            /\ UNCHANGED wsPc
                       ELSE /\ tickers' = Halt(tickers, keepalive)
                            /\ wsPc' = [at |-> "join", ticker |-> keepalive,
                                        data |-> msg.Data, from |-> Len(inbound')]
                            /\ UNCHANGED keepalive
                    /\ UNCHANGED callbacks
               ELSE /\ callbacks' =
                        IF msg.MessageType = "KeepAlive" THEN callbacks
                        ELSE Append(callbacks,
                                    WsEvent(msg.MessageType, CallbackData(msg, config)))
                    /\ UNCHANGED <<sent, tickers, keepalive, wsPc>>
    /\ UNCHANGED <<wsTime, wsc, stop, multi_client, wsClass, wsSelf, wsRun, stopPc>>
    /\ UNCHANGED <<httpPc, request, retry, data, attemptLog, httpResult, streamVars>>
    /\ UNCHANGED <<config, credentials, credVars, timeVars, urlVars, clientVars>>

\* The rest of the ForceKeepAlive branch once the old ticker has ended:
\* self.keepalive = KeepAlive(data, self); self.keepalive.start()
OnMessageJoined ==
    /\ wsPc.at = "join"
    /\ Joined(wsPc.ticker)
    /\ tickers' = Append(tickers, KeepAlive(wsPc.data, wsPc.from))
    /\ keepalive' = Len(tickers')
    /\ wsPc' = [at |-> "idle"]
    /\ UNCHANGED <<wsTime, wsc, stop, multi_client, wsClass, wsSelf, wsRun,
                   message_ids, inbound, sent, stopPc>>
    /\ UNCHANGED <<httpVars, config, credentials, credVars, timeVars, urlVars, clientVars>>

\* One turn of the loop of KeepAlive.run for ticker i, its wait having run
\* out (nothing ever sets `trigger`): self.ws.send("KeepAlive"), then the
\* test `while not self.halt`.  A send on a closed socket raises and ends
\* the thread.
KeepAliveRun(i) ==
    /\ i \in DOMAIN tickers
    /\ tickers[i].state = "waiting"
    /\ tickers[i].wakeAt = wsTime
    /\ IF wsc = "open"
       THEN /\ sent' = Append(sent, Frame("KeepAlive", i))
            /\ tickers' = IF tickers[i].halt
                          THEN [tickers EXCEPT ![i].state = "ended"]
                          ELSE [tickers EXCEPT ![i].wakeAt = wsTime + Period(tickers[i].timeout)]
       ELSE /\ tickers' = [tickers EXCEPT ![i].state = "raised"]
            /\ UNCHANGED sent
    /\ UNCHANGED <<wsTime, wsc, stop, multi_client, wsClass, wsSelf, wsRun,
                   message_ids, keepalive, inbound, wsPc, stopPc>>
    /\ UNCHANGED <<httpVars, config, credentials, credVars, timeVars, urlVars, clientVars>>

\* What stop_client does after its keepalive.stop(): the socket is closed and,
\* unless multi_client, global_stop and global_wsc are set on the instance.
CloseSocket ==
    /\ wsc' = IF wsc = None THEN None ELSE "closed"
    /\ self_global_stop' = IF multi_client THEN self_global_stop ELSE <<TRUE>>
    /\ self_global_wsc' = IF multi_client THEN self_global_wsc ELSE <<None>>

\* WSClient.stop_client(), up to its return or to the join inside
\* self.keepalive.stop().
StopClient ==
    /\ stopPc.at = "idle"
    /\ stop' = TRUE
    /\ IF keepalive = 0
       THEN /\ CloseSocket
            /\ stopPc' = [at |-> "done", during |-> runPc]
            /\ UNCHANGED tickers
       ELSE /\ tickers' = Halt(tickers, keepalive)
            /\ stopPc' = [at |-> "join", ticker |-> keepalive, during |-> runPc]
            /\ UNCHANGED <<wsc, wsSelf>>
    /\ UNCHANGED <<wsTime, multi_client, wsClass, wsRun, message_ids, keepalive, inbound, sent, wsPc>>
    /\ UNCHANGED <<httpVars, config, credentials, credVars, timeVars, urlVars, clientVars>>

\* The rest of stop_client once the ticker it stopped has ended.
StopClientJoined ==
    /\ stopPc.at = "join"
    /\ Joined(stopPc.ticker)
    /\ CloseSocket
    /\ stopPc' = [stopPc EXCEPT !.at = "done"]
    /\ UNCHANGED <<wsTime, stop, multi_client, wsClass, wsRun, message_ids, keepalive, tickers,
                   inbound, sent, wsPc>>
    /\ UNCHANGED <<httpVars, config, credentials, credVars, timeVars, urlVars, clientVars>>

\* self.x where x is a class attribute that an instance attribute may shadow
ReadAttr(own, class) == IF own = <<>> THEN class ELSE own[1]

\* ws_client.py:79-92: after run_forever has returned, whether the loop calls
\* it again.  `if not self.stop: break` leaves the loop; otherwise the loop
\* test `not self.stop and not self.global_stop` decides.
LoopAgain_IgnoresStop == TRUE
LoopAgain ==
    IF ~stop THEN FALSE
    ELSE ~stop /\ ~ReadAttr(self_global_stop, global_stop)

\* The end of one run_forever call, `cb` being the events so far: the loop
\* connects again or run() ends with the WebSocketDisconnect event.
AfterRunForever(cb) ==
    IF LoopAgain
    THEN /\ runPc' = "serving"
         /\ wsc' = "open"
         /\ callbacks' = Append(cb, WsEvent("WebSocketConnect", None))
    ELSE /\ runPc' = "exited"
         /\ wsc' = "closed"
         /\ callbacks' = Append(cb, WsEvent("WebSocketDisconnect", None))

\* WSClient.run of this instance up to its first run_forever: the socket
\* object is made, lines 74-77 close the socket self.global_wsc refers to and
\* set self.global_wsc, and the loop is entered unless a stop flag is set.
Run ==
    /\ runPc = "unstarted"
    /\ peer' = IF ~multi_client /\ ReadAttr(self_global_wsc, global_wsc) = "peer"
               THEN [peer EXCEPT !.wsc = "closed"]
               ELSE peer
    /\ self_global_wsc' = IF multi_client THEN self_global_wsc ELSE <<"self">>
    /\ IF ~stop /\ ~ReadAttr(self_global_stop, global_stop)
       THEN /\ runPc' = "serving"
            /\ wsc' = "open"
            /\ callbacks' = Append(callbacks, WsEvent("WebSocketConnect", None))
       ELSE /\ runPc' = "exited"
            /\ wsc' = "closed"
            /\ callbacks' = Append(callbacks, WsEvent("WebSocketDisconnect", None))
    /\ UNCHANGED <<wsTime, stop, multi_client, wsClass, self_global_stop, message_ids,
                   keepalive, tickers, inbound, sent, wsPc, stopPc>>
    /\ UNCHANGED <<httpPc, request, retry, data, attemptLog, httpResult, streamVars>>
    /\ UNCHANGED <<config, credentials, credVars, timeVars, urlVars, clientVars>>

\* WSClient.run of the second instance, which has the same multi_client
\* setting and whose events go to its own client.
PeerRun ==
    /\ peer.runPc = "unstarted"
    /\ wsc' = IF ~multi_client /\ ReadAttr(peer.self_global_wsc, global_wsc) = "self"
              THEN "closed"
              ELSE wsc
    /\ peer' = [runPc |-> "serving", wsc |-> "open",
                self_global_wsc |-> IF multi_client THEN peer.self_global_wsc
                                    ELSE <<"peer">>]
    /\ UNCHANGED <<wsTime, stop, multi_client, wsClass, wsSelf, runPc, message_ids,
                   keepalive, tickers, inbound, sent, wsPc, stopPc>>
    /\ UNCHANGED <<httpVars, config, credentials, credVars, timeVars, urlVars, clientVars>>

\* The connection ends while run_forever serves it: the peer closes it
\* (cause "closed") or a socket-level error occurs (cause "error", reported
\* by on_error); run_forever returns.  on_message runs on this same thread.
ConnectionEnds(cause) ==
    /\ runPc = "serving"
    /\ wsc = "open"
    /\ wsPc.at = "idle"
    /\ AfterRunForever(IF cause = "error"
                       THEN Append(callbacks, WsEvent("WebSocketError", cause))
                       ELSE callbacks)
    /\ UNCHANGED <<wsTime, stop, multi_client, wsClass, wsSelf, peer, message_ids,
                   keepalive, tickers, inbound, sent, wsPc, stopPc>>
    /\ UNCHANGED <<httpPc, request, retry, data, attemptLog, httpResult, streamVars>>
    /\ UNCHANGED <<config, credentials, credVars, timeVars, urlVars, clientVars>>

\* run_forever returns because the socket was closed by self.wsc.close().
RunForeverReturns ==
    /\ runPc = "serving"
    /\ wsc = "closed"
    /\ wsPc.at = "idle"
    /\ AfterRunForever(callbacks)
    /\ UNCHANGED <<wsTime, stop, multi_client, wsClass, wsSelf, peer, message_ids,
                   keepalive, tickers, inbound, sent, wsPc, stopPc>>
    /\ UNCHANGED <<httpPc, request, retry, data, attemptLog, httpResult, streamVars>>
    /\ UNCHANGED <<config, credentials, credVars, timeVars, urlVars, clientVars>>

\* One unit of time passes; a ticker whose wait has run out acts first.
TimePasses ==
    /\ wsTime < MaxTime
    /\ \A i \in DOMAIN tickers :
          tickers[i].state = "waiting" => tickers[i].wakeAt > wsTime
    /\ wsTime' = wsTime + 1
    /\ UNCHANGED <<wsc, stop, multi_client, wsClass, wsSelf, wsRun, message_ids,
                   keepalive, tickers, inbound, sent, wsPc, stopPc>>
    /\ UNCHANGED <<httpVars, config, credentials, credVars, timeVars, urlVars, clientVars>>

(***************************************************************************)
(* Connection negotiation: ConnectionManager.connect, connect_to_address,  *)
(* connect_to_server and _after_connect_validated.  An address is a text,  *)
(* a sequence of characters, as in the URL helpers.                        *)
(***************************************************************************)

\* connection_manager.py:21-26
CONNECTION_STATE ==
    [Unavailable |-> 0, ServerSelection |-> 1, ServerSignIn |-> 2, SignedIn |-> 3]

\* A Python value with its type, where a result holds values of several types.
PyInt(n)  == [t |-> "int", v |-> n]
PyList(l) == [t |-> "list", v |-> l]

\* CONNECTION_STATE[name] as the value of a result's 'State'.
StateOf(name) == PyInt(CONNECTION_STATE[name])

\* { 'State': CONNECTION_STATE['Unavailable'] }
Unavailable == [State |-> StateOf("Unavailable")]

\* The addresses of the model.
AddressA == HttpText \o SchemeSep \o HostText
AddressB == HttpsText \o SchemeSep \o HostText

\* The server that answers at an address.
ServerAt(address) == IF address = AddressA THEN "s1" ELSE "s2"

\* What a probe of a server can do: raise (send_request or response.json()
\* raised), answer with a status other than 200, which the API turns into {},
\* or answer 200 with the system info of the server at that address.
ProbeKinds == {"raise", "empty", "info"}

\* "replaced" is the answer of an address where another server now runs: the
\* system info carries an Id that is not the one known for the address.
ReplacedAt(address) == IF address = AddressA THEN "s2" ELSE "s1"

Answer(kind, address) ==
    IF kind = "info"
    THEN [kind |-> kind, info |-> [ServerName |-> "Test", Id |-> ServerAt(address)]]
    ELSE IF kind = "replaced"
    THEN [kind |-> "info", info |-> [ServerName |-> "Test", Id |-> ReplacedAt(address)]]
    ELSE [kind |-> kind]

\* The answers to the public probe and to the validation probe of one call;
\* the validation probe is made only after a public probe that gave the
\* system info, so its answer is not varied otherwise.
ProbePairs ==
    {pv \in ProbeKinds \X ProbeKinds : pv[1] # "info" => pv[2] = "raise"}

\* The options a caller passes.
ConnectOptions == {<<>>, [enableAutoLogin |-> FALSE], [enableAutoLogin |-> TRUE]}

\* server.get('AccessToken') is true
HasToken(server) == "AccessToken" \in DOMAIN server /\ server["AccessToken"] # None

\* ConnectionManager._update_server_info (connection_manager.py:374-383)
_update_server_info(server, system_info) ==
    LET named == SetKey(SetKey(server, "Name", system_info["ServerName"]),
                        "Id", system_info["Id"])
    IN  IF "address" \in DOMAIN system_info /\ system_info["address"] # <<>>
        THEN SetKey(named, "address", system_info["address"])
        ELSE named

\* `server` is a dict; when connect() passes servers[0] it is the record the
\* store holds at index alias, and what is assigned to it shows there.  alias
\* is 0 for the fresh dict of connect_to_address.
Store(servers, alias, server) ==
    IF alias = 0 THEN servers ELSE [servers EXCEPT ![alias] = server]

\* options.get('enableAutoLogin') is False
AutoLoginDisabled_Never(options) == FALSE
AutoLoginDisabled(options) ==
    "enableAutoLogin" \in DOMAIN options /\ options["enableAutoLogin"] = FALSE

\* The state of the result (connection_manager.py:370).
ResultState_AlwaysSignIn(server) == StateOf("ServerSignIn")
ResultState(server) ==
    IF HasToken(server) THEN StateOf("SignedIn") ELSE StateOf("ServerSignIn")

\* server['UserId'] = None; server['AccessToken'] = None (lines 349-350)
ClearToken_Keeps(server) == server
ClearToken(server) == SetKey(SetKey(server, "UserId", None), "AccessToken", None)

\* What a call leaves behind: the result (or what was raised), the dict
\* `server`, the store, config, server_id, and the probes it made in order,
\* each with the address asked and the answer.
Outcome(raised, ret, server, servers, cfg, sid, probes) ==
    [raised |-> raised, ret |-> ret, server |-> server, servers |-> servers,
     config |-> cfg, server_id |-> sid, probes |-> probes]

\* connection_manager.py:353-372, the end of _after_connect_validated.
Finalize_NotStored(server0, alias, system_info, options, servers, cfg, probes, t) ==
    LET server == SetKey(_update_server_info(server0, system_info), "DateLastAccessed",
                         strftime(t))
    IN  Outcome(None, [Servers |-> <<server>>, State |-> ResultState(server)],
                server, servers, cfg, server["Id"], probes)
Finalize(server0, alias, system_info, options, servers, cfg, probes, t) ==
    LET server == SetKey(_update_server_info(server0, system_info), "DateLastAccessed",
                         strftime(t))
        r == add_update_server(Store(servers, alias, server), server, t)
        ssl == IF "ssl" \in DOMAIN options THEN options["ssl"]
               ELSE Get(cfg, "auth.ssl", None)
        cfg1 == [k \in (DOMAIN cfg) \cup {"auth.server", "auth.server-name",
                                           "auth.server=id", "auth.ssl"} |->
                    CASE k = "auth.server"      -> server["address"]
                      [] k = "auth.server-name" -> server["Name"]
                      [] k = "auth.server=id"   -> server["Id"]
                      [] k = "auth.ssl"         -> ssl
                      [] OTHER                  -> cfg[k]]
    IN  Outcome(None, [Servers |-> <<server>>, State |-> ResultState(server)],
                server, r.servers, cfg1, server["Id"], probes)

\* ConnectionManager._after_connect_validated (connection_manager.py:333-372)
\* called with verify_authentication True; val is what
\* API.validate_authentication_token does when it is called.  The call it
\* makes on itself after a good validation has verify_authentication False
\* and the same options, and so goes to line 353.
_after_connect_validated(server, alias, system_info, options, val, servers, cfg, sid, probes, t) ==
    IF AutoLoginDisabled(options)
    THEN LET popped == DropKey(DropKey(server, "UserId"), "AccessToken")
             cfg1 == SetKey(SetKey(cfg, "auth.user_id", Get(server, "UserId", None)),
                            "auth.token", Get(server, "AccessToken", None))
         IN  Finalize(popped, alias, system_info, options,
                      Store(servers, alias, popped), cfg1, probes, t)
    ELSE IF HasToken(server)
    THEN LET asked == Append(probes, [kind |-> "validate", address |-> server["address"],
                                      answer |-> val.kind])
         IN  CASE val.kind = "raise" ->
                    Outcome("Exception", <<>>, server, servers, cfg, sid, asked)
               [] val.kind = "info" ->
                    LET known == _update_server_info(server, val.info)
                        cfg1 == SetKey(SetKey(cfg, "auth.user_id", known["UserId"]),
                                       "auth.token", known["AccessToken"])
                    IN  Finalize(known, alias, val.info, options,
                                 Store(servers, alias, known), cfg1, asked, t)
               [] val.kind = "empty" ->
                    LET cleared == ClearToken(server)
                    IN  Outcome(None, Unavailable, cleared,
                                Store(servers, alias, cleared), cfg, sid, asked)
    ELSE Finalize(server, alias, system_info, options, servers, cfg, probes, t)

\* ConnectionManager.connect_to_server (connection_manager.py:172-196); pub is
\* what API.get_public_info does.  Every exception ends in the result
\* Unavailable, with what was assigned before it left as it is.
connect_to_server(server0, alias, options, pubKind, valKind, servers, cfg, sid, t) ==
    LET server == IF "address" \in DOMAIN options
                  THEN SetKey(server0, "address", options["address"])
                  ELSE server0
        \* a request to the address None raises (requests' MissingSchema)
        pub == IF "address" \in DOMAIN server THEN Answer(pubKind, server["address"])
               ELSE [kind |-> "raise"]
        val == IF "address" \in DOMAIN server THEN Answer(valKind, server["address"])
               ELSE [kind |-> "raise"]
        held == Store(servers, alias, server)
        probes == <<[kind |-> "public", address |-> Get(server, "address", None),
                     answer |-> pubKind]>>
    IN  CASE pub.kind = "raise" ->
               Outcome(None, Unavailable, server, held, cfg, sid, probes)
          [] pub.kind = "empty" ->
               Outcome(None, Unavailable, server, held, cfg, sid, probes)
          [] pub.kind = "info" ->
               LET known == _update_server_info(server, pub.info)
                   out == _after_connect_validated(known, alias, pub.info, options, val,
                                                   Store(servers, alias, known),
                                                   cfg, sid, probes, t)
               IN  IF out.raised = None THEN out
                   ELSE [out EXCEPT !.raised = None, !.ret = Unavailable]

\* The call ends: its effects and its result become the state.
Returns(op, cand, given, out) ==
    /\ credentials' = out.servers
    /\ config' = out.config
    /\ server_id' = out.server_id
    /\ lastOp' = [op |-> op, cand |-> cand, raised |-> out.raised, ret |-> out.ret,
                  probes |-> out.probes, given |-> given, server |-> out.server]
    /\ UNCHANGED <<now, httpVars, timeVars, urlVars, clientVars, wsVars>>

\* ConnectionManager.connect(options, discover=True) (connection_manager.py:198-213):
\* get_available_servers, then connect_to_server on the first of the list.
Connect(found, options, pub, val) ==
    IF found = <<>> /\ credentials = <<>>
    THEN Returns("connect", [options |-> options, found |-> found], <<>>,
                 Outcome(None, [State |-> PyList(<<"ServerSelection">>)], <<>>,
                         credentials, config, server_id, <<>>))
    ELSE LET servers == SortByDateDesc(MergeFound(credentials, found, now))
         IN  Returns("connect", [options |-> options, found |-> found], servers[1],
                     connect_to_server(servers[1], 1, options, pub, val,
                                       servers, config, server_id, now))

\* A direct call connect_to_server(server, options) with a dict of the
\* caller's, which is not a record of the store.
ConnectToServer(server, options, pub, val) ==
    Returns("connect_to_server", [options |-> options, server |-> server], server,
            connect_to_server(server, 0, options, pub, val,
                              credentials, config, server_id, now))

\* A direct call revoke_token().
RevokeToken ==
    LET rv == revoke_token(credentials, config)
    IN  /\ credentials' = rv.servers
        /\ config' = rv.config
        /\ lastOp' = [op |-> "revoke_token", cand |-> <<>>, raised |-> rv.raised,
                      ret |-> <<>>]
        /\ UNCHANGED <<now, server_id, httpVars, timeVars, urlVars, clientVars, wsVars>>

\* What API.check_redirect does: the URL the server answers from, the address
\* asked or another one, or an exception.
Redirects == {"same", "moved", "raise"}

\* ConnectionManager.connect_to_address (connection_manager.py:146-169)
ConnectToAddress(address, options, redirect, pub, val) ==
    IF address = <<>>
    THEN Returns("connect_to_address", [address |-> address, options |-> options], <<>>,
                 Outcome(None, FALSE, <<>>, credentials, config, server_id, <<>>))
    ELSE LET normal == _normalize_address(address)
             checked == <<[kind |-> "redirect", address |-> normal, answer |-> redirect]>>
             target == IF redirect = "moved" THEN AddressB ELSE normal
             out == connect_to_server([address |-> target], 0, options, pub, val,
                                      credentials, config, server_id, now)
         IN  Returns("connect_to_address", [address |-> address, options |-> options],
                     [address |-> target],
                     IF redirect = "raise"
                     THEN Outcome(None, Unavailable, <<>>, credentials, config,
                                  server_id, checked)
                     ELSE [out EXCEPT !.probes = checked \o out.probes])

\* API.login (api.py:790-816): the json of a 200 response, and {} for every
\* other status and for every exception.
\* ConnectionManager.connect on the store `stored`: its outcome.
connect(stored, found, options, pub, val, cfg, sid, t) ==
    IF found = <<>> /\ stored = <<>>
    THEN Outcome(None, [State |-> PyList(<<"ServerSelection">>)], <<>>,
                 stored, cfg, sid, <<>>)
    ELSE LET servers == SortByDateDesc(MergeFound(stored, found, t))
         IN  connect_to_server(servers[1], 1, options, pub, val, servers, cfg, sid, t)

\* JellyfinClient.set_credentials(credentials or {}): the servers the store
\* holds afterwards, none for a mapping without 'Servers'.
set_credentials(creds) ==
    IF "Servers" \in DOMAIN creds THEN creds["Servers"] ELSE <<>>

\* authenticate: `state['State'] == CONNECTION_STATE['SignedIn']`
SignedInState_AnyServer(state) ==
    /\ state.State.t = "int"
    /\ state.State.v \in {CONNECTION_STATE["SignedIn"], CONNECTION_STATE["ServerSignIn"]}

\* a list never equals an int
SignedInState(state) ==
    state.State.t = "int" /\ state.State.v = CONNECTION_STATE["SignedIn"]

\* JellyfinClient.authenticate(credentials, options, discover): the store is
\* replaced, connect() runs, and a SignedIn result sets logged_in and emits
\* ServerOnline; an exception of connect() leaves before either.
Authenticate(creds, options, found, pub, val) ==
    LET out == connect(set_credentials(creds), found, options, pub, val,
                       config, server_id, now)
        signed == out.raised = None /\ SignedInState(out.ret)
    IN  /\ credentials' = out.servers
        /\ config' = out.config
        /\ server_id' = out.server_id
        /\ lastOp' = [op |-> "authenticate",
                      cand |-> [credentials |-> creds, options |-> options,
                                found |-> found],
                      raised |-> out.raised,
                      ret |-> IF out.raised = None
                              THEN SetKey(out.ret, "Credentials",
                                          [Servers |-> out.servers])
                              ELSE out.ret,
                      probes |-> out.probes, given |-> <<>>, server |-> out.server]
        /\ logged_in' = IF signed THEN TRUE ELSE logged_in
        /\ callbacks' = IF signed
                        THEN Append(callbacks,
                                    WsEvent("ServerOnline", [Id |-> out.server_id]))
                        ELSE callbacks
        /\ UNCHANGED <<httpPc, request, retry, data, attemptLog, httpResult, streamVars>>
        /\ UNCHANGED <<now, session, keep_alive, clientOp, timeVars, urlVars, wsVars>>

\* JellyfinClient.start(websocket=False, keep_alive): ValueError unless
\* logged_in; then HTTP.start_session makes the session and reads config
\* 'http.max_retries', and keep_alive is set when asked for.
Start(ka) ==
    /\ IF ~logged_in
       THEN /\ clientOp' = [op |-> "start", raised |-> "ValueError"]
            /\ UNCHANGED <<session, keep_alive>>
       ELSE /\ session' = "session"
            /\ IF "http.max_retries" \in DOMAIN config
               THEN /\ clientOp' = [op |-> "start", raised |-> None]
                    /\ keep_alive' = IF ka THEN TRUE ELSE keep_alive
               ELSE /\ clientOp' = [op |-> "start", raised |-> "KeyError"]
                    /\ UNCHANGED keep_alive
    /\ UNCHANGED <<logged_in, httpVars, config, credentials, credVars, timeVars,
                   urlVars, wsVars>>

LoginCalls ==
    {[kind |-> "raise"], [kind |-> "status", code |-> 401]}
        \cup {[kind |-> "status", code |-> 200, json |-> LoginResponse(sid, uid)] :
                sid \in ServerIds \cup {"s3"}, uid \in {"u1"}}

API_login_AnyStatus(call) ==
    IF call.kind = "status" THEN LoginResponse("s1", "u1") ELSE <<>>
API_login(call) ==
    IF call.kind = "status" /\ call.code = 200 THEN call.json ELSE <<>>

\* The store of a client that knows two servers and holds a token for the
\* first.
ConnInitServers ==
    << [Id |-> "s1", address |-> AddressA, Name |-> "Test", DateLastAccessed |-> 0,
        UserId |-> "u1", AccessToken |-> "tokA"],
       [Id |-> "s2", address |-> AddressB, Name |-> "Test", DateLastAccessed |-> 0] >>

\* A discovery reply as process_found_servers builds it.
ConnFound(id) ==
    [Id |-> id, address |-> IF id = "s1" THEN AddressA ELSE AddressB, Name |-> "Test"]

(***************************************************************************)
(* Initial states and specifications                                       *)
(***************************************************************************)
\* A client as constructed: logged_in, HTTP.session and HTTP.keep_alive are the
\* class attributes, start() was not called.
ClientIdle ==
    /\ logged_in = FALSE
    /\ session = None
    /\ keep_alive = FALSE
    /\ clientOp = [op |-> "none", raised |-> None]

CredIdle ==
    /\ now = 0
    /\ lastOp = NoOp
    /\ server_id = None

TimeIdle ==
    /\ measurements = <<>>
    /\ measurement = NoMeasurement
    /\ tsLast = [op |-> "none", m |-> NoMeasurement, popped |-> FALSE]
    /\ polling_interval = polling_interval_greedy
    /\ pings = 0
    /\ timesync_thread = None
    /\ running = 0
    /\ probed = 0
    /\ pollLast = NoPoll
    /\ subscribers = {}
    /\ notified = <<>>

UrlIdle ==
    /\ urlIn = [kind |-> "none"]
    /\ urlText = <<>>
    /\ urlOut = <<>>
    /\ urlOp = "none"

\* No second instance has started.
NoPeer == [runPc |-> "unstarted", wsc |-> None, self_global_wsc |-> <<>>]

\* A transport whose run() has opened the socket: no message seen, no ticker.
WsRunning(multi) ==
    /\ wsTime = 0
    /\ wsc = "open"
    /\ stop = FALSE
    /\ multi_client = multi
    /\ global_stop = FALSE
    /\ global_wsc = None
    /\ self_global_stop = <<>>
    /\ self_global_wsc = IF multi THEN <<>> ELSE <<"self">>
    /\ runPc = "serving"
    /\ peer = NoPeer
    /\ message_ids = {}
    /\ keepalive = 0
    /\ tickers = <<>>
    /\ inbound = <<>>
    /\ sent = <<>>
    /\ wsPc = [at |-> "idle"]
    /\ stopPc = [at |-> "idle"]

WsIdle == WsRunning(FALSE)

\* A transport that was constructed and whose thread has not started.
WsUnstarted(multi) ==
    /\ wsTime = 0
    /\ wsc = None
    /\ stop = FALSE
    /\ multi_client = multi
    /\ global_stop = FALSE
    /\ global_wsc = None
    /\ self_global_stop = <<>>
    /\ self_global_wsc = <<>>
    /\ runPc = "unstarted"
    /\ peer = NoPeer
    /\ message_ids = {}
    /\ keepalive = 0
    /\ tickers = <<>>
    /\ inbound = <<>>
    /\ sent = <<>>
    /\ wsPc = [at |-> "idle"]
    /\ stopPc = [at |-> "idle"]

\* The candidates handed to add_update_server: with an Id, every combination
\* of date and fields; without an Id, one record.
Candidates ==
    { Candidate(id, dt[1], dt[2], fields) :
        id \in ServerIds,
        dt \in {<<FALSE, 0>>} \cup {<<TRUE, d>> : d \in 0..MaxClock},
        fields \in SUBSET {"Name", "Foo"} }
    \cup { Candidate("absent", FALSE, 0, {"Foo"}) }

\* Request pipeline: a signed-in client issuing requests.
InitHttp ==
    /\ HttpIdle
    /\ config \in HttpInitConfigs
    /\ credentials = HttpInitServers
    /\ CredIdle /\ ClientIdle /\ TimeIdle /\ UrlIdle /\ WsIdle

NextHttp ==
    \/ \E verb \in Verbs \cup {"absent"},
          hb \in {<<FALSE, 0>>} \cup {<<TRUE, b>> : b \in 0..MaxBudget},
          hasHeaders \in BOOLEAN :
          HttpRequest(RequestData(verb, hb[1], hb[2], hasHeaders))
    \/ \E resp \in Responses : HttpAttempt(resp)

SpecHttp == InitHttp /\ [][NextHttp]_vars

\* Downloads: requests with a dest_file.
NextStream ==
    \/ \E verb \in Verbs, b \in 0..MaxBudget :
          HttpRequestTo(RequestData(verb, TRUE, b, FALSE))
    \/ \E resp \in Responses : HttpAttempt(resp)

SpecStream == InitHttp /\ [][NextStream]_vars

\* ---- substitution of {server}, {UserId}, {DeviceId} by HTTP._request ----

\* config.data with each of 'auth.server', 'auth.user_id', 'app.device_id'
\* missing, empty or set.
SubstValue(key) ==
    CASE key = "auth.server"   -> <<"http://host:8096">>
      [] key = "auth.user_id"  -> <<"u1">>
      [] key = "app.device_id" -> <<"d1">>

SubstKeys == {"auth.server", "auth.user_id", "app.device_id"}

SubstConfig(present, empty) ==
    [k \in (DOMAIN HttpInitConfig(TRUE)) \cup present |->
        IF k \in present
        THEN (IF k \in empty THEN <<>> ELSE SubstValue(k))
        ELSE HttpInitConfig(TRUE)[k]]

SubstConfigs ==
    {SubstConfig(present, empty) : present \in SUBSET SubstKeys, empty \in SUBSET SubstKeys}

\* The URL parts of a descriptor: a full url, or a handler, or neither.
SubstUrls ==
    { [url |-> <<"{server}", "/Users/", "{UserId}", "/Items">>],
      [url |-> <<"{server}", "/Devices/", "{DeviceId}", "/", "{DeviceId}">>],
      [handler |-> <<"Users/", "{UserId}">>] }

\* params or a json body: texts at depth one, two and three, a number, and a
\* list, which _process_params does not enter.
SubstFlat ==
    [UserId |-> Str(<<"{UserId}">>), Limit |-> Other(10)]

SubstNested ==
    [Filter |-> Dict([Owner |-> Str(<<"{UserId}", "@", "{DeviceId}">>),
                      Inner |-> Dict([Host |-> Str(<<"{server}", "/", "{server}">>)])]),
     Name   |-> Str(<<"plain">>),
     Ids    |-> Other(<<"{UserId}">>)]

SubstMappings == {SubstFlat, SubstNested}

\* d with key k set to one of the mappings, or without it.
WithMapping(d, k, m) == IF m = <<>> THEN d ELSE SetKey(d, k, m)

SubstRequests ==
    { WithMapping(WithMapping(SetKey(u, "type", "GET"), "params", p), "json", j) :
        u \in SubstUrls, p \in SubstMappings \cup {<<>>}, j \in SubstMappings \cup {<<>>} }

InitSubst ==
    /\ HttpIdle
    /\ config \in SubstConfigs
    /\ credentials = HttpInitServers
    /\ CredIdle /\ ClientIdle /\ TimeIdle /\ UrlIdle /\ WsIdle

NextSubst ==
    \/ \E d \in SubstRequests : HttpRequest(d)
    \/ \E resp \in {"ok", "MissingSchema"} : HttpAttempt(resp)

SpecSubst == InitSubst /\ [][NextSubst]_vars

\* HTTP.request runs on the caller's thread: each pass of its loop ends, the
\* call by the timeout of the request and the pause by time.sleep(1).
SpecHttpLive == SpecHttp /\ WF_vars(\E resp \in Responses : HttpAttempt(resp))

\* Credential store: servers merged into an initially empty store.
InitCred ==
    /\ HttpIdle
    /\ config = <<>>
    /\ credentials = <<>>
    /\ CredIdle /\ ClientIdle /\ TimeIdle /\ UrlIdle /\ WsIdle

NextCred ==
    \/ \E server \in Candidates : AddUpdateServer(server)
    \/ \E found \in {<<>>} \cup {<<FoundServer(id)>> : id \in ServerIds} :
          GetAvailableServers(found)
    \/ Tick

SpecCred == InitCred /\ [][NextCred]_vars

\* Users of known servers: add_update_user and login.
InitUser ==
    /\ HttpIdle
    /\ config = <<>>
    /\ credentials = UserInitServers
    /\ CredIdle /\ ClientIdle /\ TimeIdle /\ UrlIdle /\ WsIdle

NextUser ==
    \/ \E i \in 1..2, uid \in UserIds, offline \in BOOLEAN :
          AddUpdateUser(i, [Id |-> uid, IsSignedInOffline |-> offline])
    \/ \E resp \in {<<>>} \cup {LoginResponse(sid, uid) : sid \in {"s1", "s3"}, uid \in UserIds} :
          Login(resp)
    \/ Tick

SpecUser == InitUser /\ [][NextUser]_vars

\* Connection negotiation: a client that knows no server, or two of them.
InitConn ==
    /\ HttpIdle
    /\ config = <<>>
    /\ credentials \in {<<>>, ConnInitServers}
    /\ CredIdle /\ ClientIdle /\ TimeIdle /\ UrlIdle /\ WsIdle

NextConn ==
    \/ \E found \in {<<>>, <<ConnFound("s2")>>}, options \in ConnectOptions,
          pv \in ProbePairs :
          Connect(found, options, pv[1], pv[2])
    \/ \E options \in ConnectOptions, pv \in ProbePairs :
          ConnectToAddress(HostText, options, "same", pv[1], pv[2])
    \/ Tick

SpecConn == InitConn /\ [][NextConn]_vars

\* Signing in: connect_to_address without options, then login, as the
\* integration test's setUp does.  The answers to calls that are not made (no
\* address, or a redirect check that raises) are not varied.
AddressCalls ==
    {c \in {<<>>, HostText} \X Redirects \X ProbePairs :
        (c[1] = <<>> \/ c[2] = "raise") => (c[2] = "raise" /\ c[3] = <<"raise", "raise">>)}

NextSignIn ==
    \/ \E c \in AddressCalls : ConnectToAddress(c[1], <<>>, c[2], c[3][1], c[3][2])
    \/ \E call \in LoginCalls : Login(API_login(call))
    \/ Tick

SpecSignIn == InitConn /\ [][NextSignIn]_vars

\* The store under every operation that writes to it.  A server dict a
\* caller kept from an earlier session: the first server with a token.
KeptServer ==
    [Id |-> "s1", address |-> AddressA, Name |-> "Test", UserId |-> "u1",
     AccessToken |-> "tokC"]

\* The answers of the public probe and of the validation probe.
StorePairs == {<<"empty", "raise">>, <<"info", "info">>, <<"info", "empty">>}

\* Candidates of a direct add_update_server: one without a date, one with
\* the oldest date.
StoreCandidates == {Candidate("s2", FALSE, 0, {}), Candidate("s1", TRUE, 0, {})}

NextStore ==
    \/ \E pv \in StorePairs : Connect(<<>>, <<>>, pv[1], pv[2])
    \/ \E pv \in StorePairs : ConnectToServer(KeptServer, <<>>, pv[1], pv[2])
    \/ \E call \in LoginCalls : Login(API_login(call))
    \/ \E server \in StoreCandidates : AddUpdateServer(server)
    \/ \E found \in {<<>>, <<ConnFound("s1")>>} : GetAvailableServers(found)
    \/ RevokeToken
    \/ Tick

SpecStore == InitConn /\ [][NextStore]_vars

\* ---- the client facade: authenticate, start and login ----
\* The credentials handed to authenticate: none, or a saved store.
SavedCredentials == {<<>>, [Servers |-> ConnInitServers]}

\* config after Config.http() was called, and before.
ClientConfigs == {<<>>, [k \in {"http.max_retries"} |-> 3]}

InitClient ==
    /\ HttpIdle
    /\ config \in ClientConfigs
    /\ credentials = <<>>
    /\ CredIdle /\ ClientIdle /\ TimeIdle /\ UrlIdle /\ WsIdle

\* The ServerOnline events a run emits at most.
MaxOnline == 2

AuthenticateCalls ==
    SavedCredentials \X {<<>>} \X {<<>>, <<ConnFound("s2")>>} \X StorePairs

NextClient ==
    \/ \E c \in AuthenticateCalls :
          /\ Len(callbacks) < MaxOnline
          /\ Authenticate(c[1], c[2], c[3], c[4][1], c[4][2])
    \/ \E call \in LoginCalls : Login(API_login(call))
    \/ \E ka \in BOOLEAN : Start(ka)

SpecClient == InitClient /\ [][NextClient]_vars

\* Known servers whose addresses may have been taken over by another server:
\* the public probe answers with the Id known for the address or with
\* another one.
TakeoverPairs == StorePairs \cup {<<"replaced", "info">>, <<"replaced", "empty">>}

NextTakeover ==
    \/ \E pv \in TakeoverPairs : Connect(<<>>, <<>>, pv[1], pv[2])
    \/ \E call \in LoginCalls : Login(API_login(call))
    \/ Tick

SpecTakeover == InitConn /\ [][NextTakeover]_vars

\* Time sync: measurements arriving at a manager that starts empty.
InitTime ==
    /\ HttpIdle
    /\ config = <<>>
    /\ credentials = <<>>
    /\ CredIdle /\ ClientIdle /\ TimeIdle /\ UrlIdle /\ WsIdle

NextTime ==
    \/ \E m \in Probes : UpdateTimeOffset(m)
    \/ ResetMeasurements

SpecTime == InitTime /\ [][NextTime]_vars

\* The poller: a manager as TimeSyncManager.__init__ leaves it, its thread
\* started, stopped and reset from outside, and the probes of the thread.
NextPoll ==
    \/ StartPing
    \/ StopPing
    \/ ForceUpdate
    \/ \E m \in PollProbes, order \in Orders(subscribers) : PollerProbe(m, order)
    \/ PollerProbeFails
    \/ ResetMeasurements

SpecPoll == InitTime /\ [][NextPoll]_vars

\* The subscribers of a poller: callbacks subscribed and removed while the
\* thread, once started, probes.
NextNotify ==
    \/ StartPing
    \/ \E m \in PollProbes, order \in Orders(subscribers) : PollerProbe(m, order)
    \/ PollerProbeFails
    \/ \E s \in Subscribers : SubscribeTimeOffset(s)
    \/ \E s \in Subscribers : RemoveSubscriber(s)

SpecNotify == InitTime /\ [][NextNotify]_vars

\* URL helpers: one input text, then the function applied to it.
InitUrl ==
    /\ HttpIdle
    /\ config = <<>>
    /\ credentials = <<>>
    /\ CredIdle /\ ClientIdle /\ TimeIdle /\ WsIdle
    /\ urlOut = <<>>
    /\ urlOp = "none"
    /\ \/ \E scheme \in AddressSchemes, port \in AddressPorts, path \in AddressPaths,
             blank \in BOOLEAN :
             /\ urlIn = [kind |-> "address", scheme |-> scheme, host |-> HostText,
                         port |-> port, path |-> path, blank |-> blank]
             /\ urlText = AddressText(urlIn)
       \/ \E base \in BaseCores, handler \in HandlerCores,
             trailing \in 0..MaxSlashes, leading \in 0..MaxSlashes :
             /\ urlIn = [kind |-> "join", base |-> base, handler |-> handler,
                         trailing |-> trailing, leading |-> leading]
             /\ urlText = <<base \o Slashes(trailing), Slashes(leading) \o handler>>

NextUrl ==
    \/ NormalizeAddress
    \/ NormalizeAgain
    \/ JellyfinUrl

SpecUrl == InitUrl /\ [][NextUrl]_vars

\* Websocket transport: a running transport receiving messages while its
\* tickers run and the application stops it.
InitWs ==
    /\ HttpIdle
    /\ config = <<>>
    /\ credentials = <<>>
    /\ CredIdle /\ ClientIdle /\ TimeIdle /\ UrlIdle
    /\ \E multi \in BOOLEAN : WsRunning(multi)

NextWs ==
    \/ \E msg \in Messages : OnMessage(msg)
    \/ OnMessageJoined
    \/ \E i \in 1..MaxMessages : KeepAliveRun(i)
    \/ StopClient
    \/ StopClientJoined
    \/ TimePasses

SpecWs == InitWs /\ [][NextWs]_vars

\* Run loop: a transport from its construction on, a second instance
\* starting before or after it, the connection ending, the application
\* stopping the transport; the server sends ForceKeepAlive with timeout 2.
RunMessages ==
    {[MessageType |-> "ForceKeepAlive", Data |-> 2, DataKind |-> "number",
      MessageId |-> None]}

InitWsRun ==
    /\ HttpIdle
    /\ config = <<>>
    /\ credentials = <<>>
    /\ CredIdle /\ ClientIdle /\ TimeIdle /\ UrlIdle
    /\ \E multi \in BOOLEAN : WsUnstarted(multi)

NextWsRun ==
    \/ Run
    \/ PeerRun
    \/ \E cause \in {"closed", "error"} : ConnectionEnds(cause)
    \/ RunForeverReturns
    \/ \E msg \in RunMessages : OnMessage(msg)
    \/ OnMessageJoined
    \/ \E i \in 1..MaxMessages : KeepAliveRun(i)
    \/ StopClient
    \/ StopClientJoined
    \/ TimePasses

SpecWsRun == InitWsRun /\ [][NextWsRun]_vars

\* Dispatch: a running transport of a client in default-app mode or not,
\* receiving messages of every kind while its ticker runs.
InitWsMsg ==
    /\ HttpIdle
    /\ config \in {[k \in {"app.default"} |-> b] : b \in BOOLEAN}
    /\ credentials = <<>>
    /\ now = 0
    /\ lastOp = NoOp
    /\ server_id \in {None, "s1"}
    /\ ClientIdle /\ TimeIdle /\ UrlIdle
    /\ WsRunning(FALSE)

NextWsMsg ==
    \/ \E msg \in DispatchMessages : OnMessage(msg)
    \/ OnMessageJoined
    \/ \E i \in 1..MaxMessages : KeepAliveRun(i)
    \/ TimePasses

SpecWsMsg == InitWsMsg /\ [][NextWsMsg]_vars

\* The same with the threads scheduled and time passing: a run_forever whose
\* socket was closed returns, a join on an ended ticker returns, a ticker
\* whose wait has run out acts, and the clock advances up to MaxTime.
SpecWsRunLive ==
    /\ SpecWsRun
    /\ WF_vars(RunForeverReturns)
    /\ WF_vars(OnMessageJoined)
    /\ WF_vars(\E i \in 1..MaxMessages : KeepAliveRun(i))
    /\ WF_vars(TimePasses)

(***************************************************************************)
(* Claims about the request pipeline (checked under SpecHttp)              *)
(***************************************************************************)

\* The request was issued without data['retry']: the budget is the default 5.
DefaultBudget == httpPc # "idle" /\ "retry" \notin DOMAIN request

\* The first n attempts of the request in progress all failed with a connection error.
FirstFailed(n) ==
    /\ Len(attemptLog) >= n
    /\ \A i \in 1..n : attemptLog[i].resp = "ConnectionError"

Succeeded(resp) == resp \in {"ok", "ok_nojson"}

\* C1 as stated: with the default budget of 5, a request whose attempts failed
\* with a connection error 5 times cannot succeed on a 6th attempt; it ends
\* raising ServerUnreachable instead of returning a result.
C1_NoSixthAttemptSucceeds ==
    (DefaultBudget /\ FirstFailed(5) /\ Len(attemptLog) >= 6)
        => ~(Succeeded(attemptLog[6].resp) /\ httpResult.kind = "returned")

\* C1 as the code has it: with the default budget of 5 the request makes up to
\* 6 attempts.  After 5 connection errors a 6th attempt is made, and its result
\* is returned when it succeeds.  Only a 6th connection error ends the request
\* without a result and without a 7th attempt: it raises ServerUnreachable,
\* after the ServerUnreachable callback, when config holds 'auth.server-id',
\* and the KeyError of that lookup when it does not.
C1_SixthAttemptDecides ==
    /\ (DefaultBudget /\ FirstFailed(5) /\ Len(attemptLog) = 5)
          => (httpPc = "running" /\ httpResult.kind = "none")
    /\ (DefaultBudget /\ FirstFailed(5) /\ Len(attemptLog) >= 6)
          => /\ Len(attemptLog) = 6
             /\ httpPc = "done"
             /\ Succeeded(attemptLog[6].resp) => httpResult.kind = "returned"
             /\ attemptLog[6].resp = "ConnectionError" =>
                   /\ httpResult.kind = "raised"
                   /\ HasServerId(config) =>
                         /\ httpResult.value = "ServerUnreachable"
                         /\ callbacks = <<"ServerUnreachable">>
                   /\ ~HasServerId(config) =>
                         /\ httpResult.value = "KeyError"
                         /\ callbacks = <<>>

\* C1 witness: six connection errors in a row under the default budget ended
\* the request with ServerUnreachable.
C1_Witness ==
    /\ DefaultBudget
    /\ FirstFailed(6)
    /\ httpResult = [kind |-> "raised", value |-> "ServerUnreachable"]

\* The stored token is as it was when the request was issued.
TokenUnchanged ==
    /\ credentials = HttpInitServers
    /\ config["auth.token"] = "tokA"

\* The stored token has been cleared, on every server record and in config.
TokenCleared ==
    /\ \A i \in DOMAIN credentials : credentials[i]["AccessToken"] = None
    /\ config["auth.token"] = None

\* C2: a 401 response carrying X-Application-Error-Code raises AccessRestricted
\* and leaves the stored token unchanged; a 401 without the header raises
\* Unauthorized with the stored token cleared; neither is retried.  Stated for
\* the configurations in which the callback's lookup of 'auth.server-id'
\* succeeds, so that a violation is one of the 401 handling itself.
C2_Classifies401 ==
    (HasServerId(config) /\ attemptLog # <<>>)
        => LET last == attemptLog[Len(attemptLog)].resp
           IN  /\ last = "401+X-Application-Error-Code" =>
                     /\ httpPc = "done"
                     /\ httpResult = [kind |-> "raised", value |-> "AccessRestricted"]
                     /\ TokenUnchanged
               /\ last = "401" =>
                     /\ httpPc = "done"
                     /\ httpResult = [kind |-> "raised", value |-> "Unauthorized"]
                     /\ TokenCleared

(***************************************************************************)
(* Claims about the credential store (checked under SpecCred, SpecUser)    *)
(***************************************************************************)

\* The step is a call add_update_server(servers, c) with a candidate carrying an Id.
IsAddUpdateServerStep ==
    /\ lastOp'.op = "add_update_server"
    /\ now' = now
    /\ "Id" \in DOMAIN lastOp'.cand

\* The timestamp of candidate c at the time of the call.
DateOf(c) == IF "DateLastAccessed" \in DOMAIN c THEN c["DateLastAccessed"] ELSE now

MergesInto(i) ==
    /\ IsAddUpdateServerStep
    /\ i \in DOMAIN credentials
    /\ credentials[i]["Id"] = lastOp'.cand["Id"]
    /\ DateOf(lastOp'.cand) > credentials[i]["DateLastAccessed"]

EntriesOf(server, uid) ==
    LET users == Get(server, "Users", <<>>)
    IN  {n \in DOMAIN users : users[n]["Id"] = uid}

\* C5: add_update_user is idempotent.  After a call the Users list of the server
\* holds one entry for the user's Id, and a second call for the same server and
\* the same user Id changes nothing in the store.
C5_AddUpdateUserIdempotent ==
    /\ [](lastOp.op = "add_update_user" =>
             Cardinality(EntriesOf(credentials[lastOp.ret.index], lastOp.cand["Id"])) = 1)
    /\ [][ (/\ lastOp.op = "add_update_user"
            /\ lastOp'.op = "add_update_user"
            /\ now' = now
            /\ lastOp'.ret.index = lastOp.ret.index
            /\ lastOp'.cand["Id"] = lastOp.cand["Id"])
              => credentials' = credentials ]_vars

\* C5 witness: add_update_user was called for a user Id that the server's Users
\* list already held with another IsSignedInOffline value, behind another user.
C5_Witness ==
    /\ lastOp.op = "add_update_user"
    /\ LET users == credentials[lastOp.ret.index]["Users"]
       IN  /\ Len(users) = 2
           /\ users[2]["Id"] = lastOp.cand["Id"]
           /\ users[2]["IsSignedInOffline"] # lastOp.cand["IsSignedInOffline"]

(***************************************************************************)
(* Claims about the time-sync window (checked under SpecTime)              *)
(***************************************************************************)

\* C6: after every update_time_offset call the selected measurement is one of
\* the tracked window and no measurement of the window has a smaller delay.
C6_SelectedIsWindowMinimum ==
    tsLast.op = "update_time_offset" =>
        /\ measurement # NoMeasurement
        /\ \E i \in DOMAIN measurements : measurements[i] = measurement
        /\ \A i \in DOMAIN measurements :
              get_delay(measurement) <= get_delay(measurements[i])

\* C6 witness: the window is full and holds measurements of several delays;
\* the selected one is neither the oldest nor the newest, which both have a
\* larger delay.
C6_Witness ==
    /\ tsLast.op = "update_time_offset"
    /\ Len(measurements) = number_of_tracked_measurements
    /\ tsLast.popped
    /\ get_delay(measurements[1]) > get_delay(measurement)
    /\ get_delay(measurements[Len(measurements)]) > get_delay(measurement)

\* C7: the window never holds more than 8 measurements; a measurement arriving
\* while 8 are tracked evicts exactly the oldest one and the size stays 8, and
\* below 8 nothing is evicted.
C7_WindowIsFifoOfEight ==
    /\ [](Len(measurements) <= 8)
    /\ [][ tsLast'.op = "update_time_offset" =>
             IF Len(measurements) = 8
             THEN /\ measurements' = Append(Tail(measurements), tsLast'.m)
                  /\ tsLast'.popped
                  /\ Len(measurements') = 8
             ELSE /\ measurements' = Append(measurements, tsLast'.m)
                  /\ ~tsLast'.popped ]_vars

\* C7 witness: a measurement arrived while 8 were tracked; one was popped, 8
\* are tracked, the newest is the one that arrived and differs from the oldest.
C7_Witness ==
    /\ tsLast.op = "update_time_offset"
    /\ tsLast.popped
    /\ Len(measurements) = 8
    /\ measurements[8] = tsLast.m
    /\ measurements[1] # measurements[8]

(***************************************************************************)
(* Claims about the URL helpers (checked under SpecUrl)                    *)
(***************************************************************************)

\* The port of an address is the default port of the scheme it ends up with.
IsDefaultPort(scheme, port) ==
    \/ (scheme = HttpText /\ port = 80)
    \/ (scheme = HttpsText /\ port = 443)

\* The normalized form of an address, from the parts it was written from.
NormalizedForm(a) ==
    LET scheme == IF a.scheme = <<>> THEN HttpText ELSE a.scheme
    IN  scheme \o SchemeSep \o a.host
            \o (IF a.port = NoPort \/ IsDefaultPort(scheme, a.port) THEN <<>>
                ELSE <<":">> \o IntToDigits(a.port))
            \o a.path

\* C8: _normalize_address drops port 80 of an http address and port 443 of an
\* https address, gives an address without scheme the scheme http, keeps every
\* other port, and returns an already normalized address unchanged.
C8_NormalizeAddress ==
    /\ (urlOp \in {"normalized", "normalized twice"} => urlOut = NormalizedForm(urlIn))
    /\ (urlOp = "normalized twice" => urlOut = urlText)
    /\ _normalize_address(<<"h", "t", "t", "p", ":", "/", "/", "h", "o", "s", "t", ":", "8", "0">>)
          = <<"h", "t", "t", "p", ":", "/", "/", "h", "o", "s", "t">>
    /\ _normalize_address(<<"h", "t", "t", "p", "s", ":", "/", "/", "h", "o", "s", "t", ":", "4", "4", "3">>)
          = <<"h", "t", "t", "p", "s", ":", "/", "/", "h", "o", "s", "t">>
    /\ _normalize_address(<<"h", "o", "s", "t">>)
          = <<"h", "t", "t", "p", ":", "/", "/", "h", "o", "s", "t">>

\* C8 witness: an https address with port 80 and a path was normalized twice
\* and kept its port.
C8_Witness ==
    /\ urlOp = "normalized twice"
    /\ urlIn.scheme = HttpsText
    /\ urlIn.port = 80
    /\ urlIn.path # <<>>
    /\ Find(urlOut, <<":", "8", "0">>) # 0

\* C9: jellyfin_url joins the base address and the handler with exactly one
\* slash between them, whatever the slashes at the end of the base and at the
\* start of the handler.
C9_JellyfinUrlOneSlash ==
    /\ (urlOp = "joined" => urlOut = urlIn.base \o Slash \o urlIn.handler)
    /\ jellyfin_url(<<"h", "t", "t", "p", "s", ":", "/", "/", "e", ".", "c", "/">>,
                    <<"I", "t", "e", "m", "s", "/", "1">>)
          = <<"h", "t", "t", "p", "s", ":", "/", "/", "e", ".", "c", "/",
              "I", "t", "e", "m", "s", "/", "1">>

\* C9 witness: a base ending in a slash and a handler starting with one were joined.
C9_Witness ==
    /\ urlOp = "joined"
    /\ urlIn.trailing > 0
    /\ urlIn.leading > 0
    /\ urlIn.base # <<>>
    /\ urlIn.handler # <<>>


(***************************************************************************)
(* C10: ForceKeepAlive and the keepalive ticker                            *)
(***************************************************************************)

\* Inbound message k carries a MessageId that an earlier message carried.
IsRepeat(k) ==
    /\ inbound[k].msg.MessageId # None
    /\ \E j \in 1..(k - 1) : inbound[j].msg.MessageId = inbound[k].msg.MessageId

IsForceKeepAlive(k) == inbound[k].msg.MessageType = "ForceKeepAlive"

IsDispatchedForceKeepAlive(k) == IsForceKeepAlive(k) /\ ~IsRepeat(k)

InboundIndices == [k \in 1..Len(inbound) |-> k]

IsBySocketThread(f) == f.by = 0

\* The frames sent by ticker i, in order
FramesBy(i) == SelectSeq(sent, LAMBDA f : f.by = i)

\* The messages `answered` (indices into inbound, in order) are each answered
\* at their instant by one KeepAlive frame of the socket thread and nothing
\* else is; each gets a ticker with its timeout T, unless on_message still
\* waits for the previous ticker to end; and the n-th frame of a ticker is
\* sent n * T/2 after its start, no point of that schedule being skipped
\* while the ticker has not been stopped.  A ticker ends only when stopped
\* or when the socket is closed.
KeepAliveProtocol(answered) ==
    LET frames == SelectSeq(sent, IsBySocketThread)
    IN  /\ Len(frames) = Len(answered)
        /\ \A n \in 1..Len(answered) :
              /\ frames[n].MessageType = "KeepAlive"
              /\ frames[n].time = inbound[answered[n]].time
              /\ \/ \E i \in DOMAIN tickers : tickers[i].from = answered[n]
                 \/ wsPc.at = "join" /\ wsPc.from = answered[n]
        /\ \A i \in DOMAIN tickers :
              LET t == tickers[i]
                  F == FramesBy(i)
              IN  /\ t.from \in Range(answered)
                  /\ t.timeout = inbound[t.from].msg.Data
                  /\ \A n \in 1..Len(F) :
                        /\ F[n].MessageType = "KeepAlive"
                        /\ 2 * (F[n].time - t.start) = n * t.timeout
                  /\ (t.state = "waiting" /\ ~t.halt)
                        => 2 * (wsTime - t.start) <= (Len(F) + 1) * t.timeout
                  /\ t.state # "waiting" => (t.halt \/ wsc = "closed")

\* C10 as stated: every ForceKeepAlive message received is answered by an
\* immediate KeepAlive frame and followed by a ticker that sends one
\* KeepAlive every T/2 until it is stopped.
C10_EveryForceKeepAliveAnswered ==
    KeepAliveProtocol(SelectSeq(InboundIndices, IsForceKeepAlive))

\* C10: every ForceKeepAlive message that is not dropped as a repeat of a
\* MessageId already seen is answered by one immediate KeepAlive frame and
\* followed by a ticker whose n-th KeepAlive is sent n * T/2 after its start,
\* for as long as the ticker has not been stopped; a repeat is answered by
\* nothing.
C10_DispatchedForceKeepAliveAnswered ==
    KeepAliveProtocol(SelectSeq(InboundIndices, IsDispatchedForceKeepAlive))

\* A ticker that sent at least two frames on schedule and was then stopped
\* by the ForceKeepAlive that replaced it.
C10_Witness ==
    \E i \in DOMAIN tickers :
        /\ Len(FramesBy(i)) >= 2
        /\ tickers[i].state = "ended"
        /\ \E j \in DOMAIN tickers : j > i /\ tickers[j].state = "waiting"

(***************************************************************************)
(* Claims about the run loop of the transport (checked under SpecWsRun)    *)
(***************************************************************************)

\* How often the transport handed `event` to the callback
EventCount(event) == Len(SelectSeq(callbacks, LAMBDA c : c.event = event))

\* C11 as stated: when the connection ends while stop_client() has not been
\* called the run loop connects again, so run() has ended only if the stop
\* flag is set.
C11_LoopEndsOnlyAfterStop ==
    runPc = "exited" => stop

\* C12 as stated: unless multi-client mode is enabled, the sockets of two
\* WSClient instances of the process are never open together.
C12_OneActiveSocket ==
    ~multi_client => ~(wsc = "open" /\ peer.wsc = "open")

\* on_message waits in join for a ticker that wakes after MaxTime.
WaitsBeyondMaxTime ==
    /\ wsPc.at = "join"
    /\ tickers[wsPc.ticker].state = "waiting"
    /\ tickers[wsPc.ticker].wakeAt > MaxTime

\* C13: once stop_client() has been called the stop flag is set and no
\* connection is opened any more; once it has returned the socket is closed
\* and, the transport having been running when it was called, run() ends
\* (unless on_message waits for a ticker whose wait runs out after the last
\* instant of the model's clock);
\* run() emits WebSocketDisconnect exactly once, when it ends.
C13_StopClientEndsRun ==
    /\ [](stopPc.at # "idle" => stop)
    /\ [](stopPc.at = "done" => wsc # "open")
    /\ [][stop => (wsc' = "open" => wsc = "open")]_vars
    /\ [](EventCount("WebSocketDisconnect") = IF runPc = "exited" THEN 1 ELSE 0)
    /\ (stopPc.at = "done" /\ stopPc.during = "serving")
          ~> (runPc = "exited" \/ WaitsBeyondMaxTime)

\* C13 witness: stop_client() was called on a running transport that had a
\* ticker, has returned, and run() has ended with its one WebSocketDisconnect.
C13_Witness ==
    /\ stopPc.at = "done"
    /\ stopPc.during = "serving"
    /\ tickers # <<>>
    /\ runPc = "exited"
    /\ wsc = "closed"
    /\ EventCount("WebSocketDisconnect") = 1

(***************************************************************************)
(* Claims about stopping the keepalive ticker (checked under SpecWs)       *)
(***************************************************************************)

\* C14 as stated: once stop_client() has returned, no keepalive ticker of
\* the transport is still running, however stop_client() interleaves with
\* the handling of a ForceKeepAlive message.
C14_NoTickerAfterStopClient ==
    stopPc.at = "done" => \A i \in DOMAIN tickers : tickers[i].state # "waiting"

\* The frames of ticker i among the frames `frames`
FramesOf(frames, i) == SelectSeq(frames, LAMBDA f : f.by = i)

\* C15 as stated: a ticker whose stop was requested (by stop_client or by the
\* ForceKeepAlive that replaces it) sends no further KeepAlive frame, and no
\* step lets a ticker send while another ticker has not been stopped.
C15_StoppedTickerIsSilent ==
    [][\A i \in DOMAIN tickers :
          /\ tickers[i].halt => FramesOf(sent', i) = FramesOf(sent, i)
          /\ FramesOf(sent', i) # FramesOf(sent, i) =>
                \A j \in DOMAIN tickers \ {i} :
                    tickers[j].halt \/ tickers[j].state # "waiting"]_vars

(***************************************************************************)
(* Claims about the dispatch of inbound messages (checked under SpecWsMsg) *)
(***************************************************************************)

\* Inbound message k is one the callback is to receive: not a repeat of a
\* MessageId carried by an earlier message, and neither ForceKeepAlive nor
\* KeepAlive.
IsDelivered(k) ==
    /\ ~IsRepeat(k)
    /\ inbound[k].msg.MessageType \notin {"ForceKeepAlive", "KeepAlive"}

\* C16: the events handed to the callback are, in order, the MessageTypes of
\* the inbound messages in receipt order without the repeats of a MessageId
\* already seen and without the ForceKeepAlive and KeepAlive messages, each
\* delivered once.
C16_DeliveredInOrderOnce ==
    LET expected == SelectSeq(InboundIndices, IsDelivered)
    IN  /\ Len(callbacks) = Len(expected)
        /\ \A n \in 1..Len(expected) :
              callbacks[n].event = inbound[expected[n]].msg.MessageType

\* C16 witness: a message was delivered, a later message with its MessageId
\* was dropped, and a ForceKeepAlive or KeepAlive was received in between or
\* after without being delivered.
C16_Witness ==
    /\ Len(callbacks) >= 1
    /\ \E k \in 1..Len(inbound) : IsRepeat(k) /\ ~IsForceKeepAlive(k)
    /\ \E k \in 1..Len(inbound) :
          inbound[k].msg.MessageType \in {"ForceKeepAlive", "KeepAlive"}


(***************************************************************************)
(* Claims about the request descriptor (checked under SpecHttp)            *)
(***************************************************************************)

\* C17: every attempt of a request sends the headers of the caller's
\* descriptor when the descriptor has headers, and the default headers, the
\* Authorization header among them, when it has none.
C17_CallerHeadersSent ==
    \A i \in DOMAIN attemptLog :
        attemptLog[i].headers =
            IF "headers" \in DOMAIN request THEN request["headers"]
            ELSE _get_default_headers(config)


\* The step is an attempt of the request in progress that got response resp.
IsAttemptStep(resp) ==
    /\ Len(attemptLog') = Len(attemptLog) + 1
    /\ attemptLog'[Len(attemptLog')].resp = resp

\* C18: an attempt answered with status 500 ends the request: request()
\* returns None, nothing is raised, no further attempt is made, the callback
\* is not called and the stored token is as it was.
C18_Status500ReturnsNone ==
    /\ [][ IsAttemptStep("500") =>
             /\ httpPc' = "done"
             /\ httpResult' = [kind |-> "returned", value |-> None]
             /\ callbacks' = callbacks
             /\ credentials' = credentials
             /\ config' = config ]_vars
    /\ [](\A i \in DOMAIN attemptLog :
             attemptLog[i].resp = "500" => i = Len(attemptLog))

\* C18 witness: a request retried once after a connection error, got a 500 on
\* its second attempt and returned None with the token in place.
C18_Witness ==
    /\ Len(attemptLog) = 2
    /\ attemptLog[1].resp = "ConnectionError"
    /\ attemptLog[2].resp = "500"
    /\ httpResult = [kind |-> "returned", value |-> None]
    /\ callbacks = <<>>
    /\ TokenUnchanged

\* The failures that are retried.
Retried == {"ConnectionError", "ReadTimeout", "502"}

\* The budget of the request in progress: data['retry'], 5 without it.
Budget == PopRetry(request)

\* C19: connection errors, read timeouts and 502 responses spend one budget.
\* Whatever their mix, a request makes at most budget + 1 attempts (6 without
\* data['retry']); each of them that is retried leaves one unit less; the one
\* that fails with nothing left ends the request with an exception; and a
\* request that has started ends.
C19_OneBudgetBoundsAttempts ==
    /\ [](httpPc # "idle" =>
             /\ Len(attemptLog) <= Budget + 1
             /\ ~("retry" \in DOMAIN request) => Len(attemptLog) <= 6
             /\ httpPc = "running" => retry = Budget - Len(attemptLog))
    /\ [][ \A resp \in Retried :
             (IsAttemptStep(resp) /\ Len(attemptLog) = Budget) =>
                 (httpPc' = "done" /\ httpResult'.kind = "raised") ]_vars
    /\ (httpPc = "running") ~> (httpPc = "done")

\* C19 witness: under the default budget a connection error, a read timeout,
\* a 502, a read timeout, a 502 and a connection error came in turn, and the
\* sixth attempt raised.
C19_Witness ==
    /\ ~("retry" \in DOMAIN request)
    /\ Len(attemptLog) = 6
    /\ attemptLog[1].resp = "ConnectionError"
    /\ attemptLog[2].resp = "ReadTimeout"
    /\ attemptLog[3].resp = "502"
    /\ attemptLog[4].resp = "ReadTimeout"
    /\ attemptLog[5].resp = "502"
    /\ attemptLog[6].resp = "ConnectionError"
    /\ httpPc = "done"
    /\ httpResult.kind = "raised"


(***************************************************************************)
(* Claim about placeholder substitution (checked under SpecSubst)          *)
(***************************************************************************)

\* The config key a token stands for.
KeyOf(token) ==
    CASE token = "{server}"   -> "auth.server"
      [] token = "{UserId}"   -> "auth.user_id"
      [] token = "{DeviceId}" -> "app.device_id"

Tokens == {"{server}", "{UserId}", "{DeviceId}"}

\* text with every token whose value is set replaced by that value, and every
\* other piece, a token without a value included, left where it is.
RECURSIVE Substituted(_, _)
Substituted(text, cfg) ==
    IF text = <<>> THEN <<>>
    ELSE (IF Head(text) \in Tokens /\ IsSet(cfg, KeyOf(Head(text)))
          THEN cfg[KeyOf(Head(text))]
          ELSE <<Head(text)>>) \o Substituted(Tail(text), cfg)

\* A mapping with Substituted applied to its texts at every depth.
RECURSIVE SubstitutedAll(_, _)
SubstitutedAll(m, cfg) ==
    [k \in DOMAIN m |->
        CASE m[k].t = "str"  -> Str(Substituted(m[k].v, cfg))
          [] m[k].t = "dict" -> Dict(SubstitutedAll(m[k].v, cfg))
          [] OTHER           -> m[k]]

\* The URL of the descriptor before substitution.
UrlBefore(d, cfg) == RequestUrl(d, cfg)["url"]

\* C20: the request that is issued carries the descriptor's URL, params and
\* json body with every {server}, {UserId} and {DeviceId} whose value is set
\* replaced, in texts at any depth of nested mappings; a token without a value
\* stays, and the request is issued all the same.
C20_PlaceholdersSubstituted ==
    httpPc = "idle" \/
      /\ data["url"] = Substituted(UrlBefore(request, config), config)
      /\ \A k \in {"params", "json"} :
            /\ k \in DOMAIN data <=> k \in DOMAIN request
            /\ k \in DOMAIN request => data[k] = SubstitutedAll(request[k], config)

\* C20 witness: with the user id set and the server address and device id not
\* set, a request whose params hold tokens at depth two and three was sent:
\* the user id is filled in and {DeviceId} and {server} are still there.
C20_Witness ==
    /\ attemptLog # <<>>
    /\ IsSet(config, "auth.user_id")
    /\ ~IsSet(config, "auth.server")
    /\ ~IsSet(config, "app.device_id")
    /\ "params" \in DOMAIN request
    /\ request["params"] = SubstNested
    /\ data["params"]["Filter"].v["Owner"] = Str(<<"u1", "@", "{DeviceId}">>)
    /\ data["params"]["Filter"].v["Inner"].v["Host"] = Str(<<"{server}", "/", "{server}">>)
    /\ data["url"] = <<"{server}", "/Users/", "u1", "/Items">>


\* The request in progress has given up: its last attempt failed with resp
\* when nothing of the budget was left, and request() raised.
GaveUpOn(resp) ==
    /\ httpPc = "done"
    /\ httpResult.kind = "raised"
    /\ attemptLog # <<>>
    /\ attemptLog[Len(attemptLog)].resp = resp
    /\ Len(attemptLog) = Budget + 1

\* C21: a request that gives up after its retries has called the client's
\* callback with the kind of the failure it raises, 'ServerUnreachable' after
\* connection errors and 'ReadTimeout' after read timeouts.  Stated for the
\* configurations in which the lookup of 'auth.server-id' succeeds.
C21_GiveUpNotifiesClient ==
    HasServerId(config) =>
        /\ GaveUpOn("ConnectionError") =>
              (httpResult.value = "ServerUnreachable" /\ callbacks = <<"ServerUnreachable">>)
        /\ GaveUpOn("ReadTimeout") =>
              (httpResult.value = "ReadTimeout" /\ callbacks = <<"ReadTimeout">>)


(***************************************************************************)
(* Claims about connection negotiation (checked under SpecConn)            *)
(***************************************************************************)

\* A result whose 'State' is the code of this connection state.
IsState(ret, name) == ret.State.t = "int" /\ ret.State.v = CONNECTION_STATE[name]

\* The last call was connect() or connect_to_address().
Negotiated == lastOp.op \in {"connect", "connect_to_address"}

\* C22: connect() of a client that knows no server and discovers none makes
\* no probe and returns a result whose State is CONNECTION_STATE['ServerSelection'],
\* the code 1.
C22_NoServerGivesServerSelection ==
    (lastOp.op = "connect" /\ credentials = <<>>) =>
        /\ lastOp.probes = <<>>
        /\ IsState(lastOp.ret, "ServerSelection")


\* The step is a call of connect() that found this list of servers.
IsConnectStep ==
    /\ now' = now
    /\ lastOp'.op = "connect"

\* The list get_available_servers hands to connect() in this step.
Available == SortByDateDesc(MergeFound(credentials, lastOp'.cand.found, now))

\* C23: when a server is known, connect() probes one server only, the first
\* of the merged list, whose DateLastAccessed no other record exceeds; it
\* makes one public probe, its result is the result of that attempt, and an
\* Unavailable result is returned without a probe of another server.
C23_ConnectTriesMostRecentOnly ==
    [][ IsConnectStep =>
          \A servers \in {Available} :
             servers # <<>> =>
                /\ \A i \in DOMAIN servers :
                      servers[1]["DateLastAccessed"] >= servers[i]["DateLastAccessed"]
                /\ lastOp'.given = servers[1]
                /\ Len(SelectSeq(lastOp'.probes, LAMBDA p : p.kind = "public")) = 1
                /\ \A k \in DOMAIN lastOp'.probes :
                      lastOp'.probes[k].address = servers[1]["address"]
                /\ \/ lastOp'.ret = Unavailable
                   \/ lastOp'.ret.Servers = <<lastOp'.server>> ]_vars

\* C23 witness: two servers are known, the one discovered again a second
\* later is first, its public probe failed, and connect() returned Unavailable
\* after that single probe.
C23_Witness ==
    /\ lastOp.op = "connect"
    /\ Len(credentials) = 2
    /\ lastOp.given["Id"] = "s2"
    /\ lastOp.given["DateLastAccessed"] = 1
    /\ lastOp.ret = Unavailable
    /\ Len(lastOp.probes) = 1
    /\ lastOp.probes[1].address = AddressB

\* The last call asked the server to validate a token and got this answer.
Validated(answer) ==
    /\ Negotiated
    /\ \E k \in DOMAIN lastOp.probes :
          lastOp.probes[k].kind = "validate" /\ lastOp.probes[k].answer = answer

AutoLoginOff ==
    /\ Negotiated
    /\ "enableAutoLogin" \in DOMAIN lastOp.cand.options
    /\ lastOp.cand.options["enableAutoLogin"] = FALSE

\* The last call got the system info from its public probe.
Reached ==
    /\ Negotiated
    /\ \E k \in DOMAIN lastOp.probes :
          lastOp.probes[k].kind = "public" /\ lastOp.probes[k].answer = "info"

\* The last call made no validation probe.
NoValidation == \A k \in DOMAIN lastOp.probes : lastOp.probes[k].kind # "validate"

Finalized == Negotiated /\ "Servers" \in DOMAIN lastOp.ret

\* C26: a call that finalizes returns the server record stamped with the
\* current time, has passed it to add_update_server, so that the store holds
\* a record of its Id with that time, has set server_id to its Id, and returns
\* SignedIn when the record carries a token and ServerSignIn when it does not.
C26_FinalizePersistsAndReports ==
    [][ (now' = now /\ Finalized') =>
          /\ lastOp'.ret.Servers = <<lastOp'.server>>
          /\ lastOp'.server["DateLastAccessed"] = now
          /\ \E i \in DOMAIN credentials' :
                /\ credentials'[i]["Id"] = lastOp'.server["Id"]
                /\ credentials'[i]["DateLastAccessed"] = now
          /\ server_id' = lastOp'.server["Id"]
          /\ IsState(lastOp'.ret, "SignedIn") <=> HasToken(lastOp'.server)
          /\ IsState(lastOp'.ret, "ServerSignIn") <=> ~HasToken(lastOp'.server) ]_vars

\* C26 witness: connect() validated the token of the first server and
\* finalized: SignedIn, the record stored with the time of the call, and
\* server_id set.
C26_Witness ==
    /\ lastOp.op = "connect"
    /\ Validated("info")
    /\ Finalized
    /\ IsState(lastOp.ret, "SignedIn")
    /\ server_id = "s1"
    /\ now = 1
    /\ credentials[1]["DateLastAccessed"] = 1
    /\ credentials[1]["AccessToken"] = "tokA"


\* The login call failed: it raised, or was answered with a status other
\* than 200.
LoginFailed(call) == call.kind = "raise" \/ call.code # 200

LoginSucceedsFor(call) ==
    /\ call.kind = "status"
    /\ call.code = 200
    /\ server_id = call.json["ServerId"]

C29_SwitchesAfterThreeProbes ==
    polling_interval = IF probed >= greedy_ping_count
                       THEN polling_interval_low_profile
                       ELSE polling_interval_greedy

\* What _TimeSyncThread.run does: the ping count goes up to
\* greedy_ping_count + 1, and the probe after that one sets the interval.
SwitchesOnFifthProbe ==
    /\ polling_interval = IF probed >= greedy_ping_count + 2
                          THEN polling_interval_low_profile
                          ELSE polling_interval_greedy
    /\ pings = IF probed <= greedy_ping_count + 1 THEN probed
               ELSE greedy_ping_count + 1

\* C30: after force_update the measurement window is empty and no measurement
\* is selected, the interval is the greedy one, the ping count is 0 and exactly
\* one poller is running.
C30_ForceUpdateDiscardsState ==
    pollLast.op = "force_update" =>
        /\ measurements = <<>>
        /\ measurement = NoMeasurement
        /\ polling_interval = polling_interval_greedy
        /\ pings = 0
        /\ timesync_thread # None
        /\ running = 1

\* What force_update does: the interval, the ping count and the thread are as
\* the claim says, and the measurements are those it found.
ForceUpdateKeepsMeasurements ==
    /\ pollLast.op = "force_update" =>
            /\ polling_interval = polling_interval_greedy
            /\ pings = 0
            /\ timesync_thread # None
            /\ running = 1
    /\ [][pollLast'.op = "force_update" /\ pollLast' # pollLast =>
             UNCHANGED <<measurements, measurement>>]_vars


\* The calls made to subscriber s by the last notification.
CallsTo(s) == {i \in DOMAIN notified : notified[i].subscriber = s}

\* C31: after every successful probe each registered subscriber has been
\* called once, with the offset and the ping of the selected measurement; a
\* subscriber that raises neither keeps the others from being called nor
\* stops the polling loop.
C31_ProbeNotifiesEverySubscriber ==
    [][\A m \in PollProbes, order \in Orders(subscribers) :
          PollerProbe(m, order) =>
              /\ \A s \in subscribers :
                    /\ Cardinality(CallsTo(s)') = 1
                    /\ \A i \in CallsTo(s)' :
                          /\ notified'[i].offset = get_offset(measurement')
                          /\ notified'[i].ping = get_ping(measurement')
              /\ Len(notified') = Cardinality(subscribers)
              /\ running' = running]_vars

\* A probe came in while both callbacks were subscribed and the one that
\* raises was called first.
C31_Witness ==
    /\ pollLast.op = "probe"
    /\ subscribers = Subscribers
    /\ Len(notified) = 2
    /\ notified[1].subscriber = "raiser"
    /\ notified[2].subscriber = "listener"
    /\ running = 1


\* No two records of the list carry the same Id.
UniqueIds(servers) ==
    \A i, j \in DOMAIN servers : servers[i]["Id"] = servers[j]["Id"] => i = j

\* The DateLastAccessed of the record of the list with this Id.
StoredDate(servers, id) == servers[IndexOfId(servers, id)]["DateLastAccessed"]

\* C32: with a clock that does not go back, no operation on the store moves
\* the DateLastAccessed of a stored record backwards; a record is the one of
\* its Id, in a store where an Id names one record.
C32_DateNeverMovesBack ==
    [][(UniqueIds(credentials) /\ UniqueIds(credentials')) =>
          \A i \in DOMAIN credentials :
              LET id == credentials[i]["Id"]
              IN  IndexOfId(credentials', id) # 0 =>
                      StoredDate(credentials', id) >= credentials[i]["DateLastAccessed"]]_vars

\* A record stamped at second 0 has been stamped again at second 1 by a
\* connect that finalized.
C32_Witness ==
    /\ lastOp.op = "connect"
    /\ "Servers" \in DOMAIN lastOp.ret
    /\ now = 1
    /\ lastOp.given["DateLastAccessed"] = 0
    /\ UniqueIds(credentials)
    /\ StoredDate(credentials, lastOp.given["Id"]) = 1

C34_RevokeTokenClearsTokens ==
    [][RevokeToken =>
              /\ lastOp'.raised = None
              /\ Len(credentials') = Len(credentials)
              /\ \A i \in DOMAIN credentials :
                    /\ "AccessToken" \in DOMAIN credentials'[i]
                    /\ credentials'[i]["AccessToken"] = None
                    /\ DropKey(credentials'[i], "AccessToken")
                          = DropKey(credentials[i], "AccessToken")
              /\ "auth.token" \in DOMAIN config'
              /\ config'["auth.token"] = None]_vars


\* C35: every attempt of a request is issued with the verb of the first
\* attempt, the verb of the descriptor: a retried POST is sent again as a POST.
C35_RetrySendsSameVerb ==
    \A i \in DOMAIN attemptLog :
        /\ attemptLog[i].verb = attemptLog[1].verb
        /\ attemptLog[i].verb = PopType(request)


\* C36: the sink of a streamed request holds the body of the answer that
\* passed and nothing else: no attempt that ends in an error status writes to
\* it.
C36_SinkHoldsSuccessfulBodyOnly ==
    stream =>
        \A i \in DOMAIN dest_file : dest_file[i].of \in Passed


ReturnedSignedIn ==
    /\ lastOp.op \in {"connect", "connect_to_server"}
    /\ IsState(lastOp.ret, "SignedIn")

\* jellyfin_token() gives the token of config: the first record with the Id
\* server_id carries an AccessToken, the one of config 'auth.token'.
TokenStored ==
    LET i == IndexOfId(credentials, server_id)
    IN  /\ i # 0
        /\ "AccessToken" \in DOMAIN credentials[i]
        /\ "auth.token" \in DOMAIN config
        /\ credentials[i]["AccessToken"] = config["auth.token"]

NotShadowed(server) ==
    LET i == IndexOfId(credentials, server["Id"])
    IN  i = 0 \/ credentials[i]["DateLastAccessed"] < now

SameKey(before, after, k) ==
    /\ (k \in DOMAIN before) = (k \in DOMAIN after)
    /\ k \in DOMAIN before => after[k] = before[k]

C40_StartNeedsSignedInAuthenticate ==
    [][/\ \A ka \in BOOLEAN :
            Start(ka) => ((clientOp'.raised = "ValueError")
                            = (EventCount("ServerOnline") = 0))
       /\ \A c \in AuthenticateCalls :
            Authenticate(c[1], c[2], c[3], c[4][1], c[4][2]) =>
                IF lastOp'.raised = None /\ IsState(lastOp'.ret, "SignedIn")
                THEN /\ logged_in'
                     /\ callbacks' = Append(callbacks,
                            WsEvent("ServerOnline", [Id |-> server_id']))
                ELSE /\ logged_in' = logged_in
                     /\ callbacks' = callbacks
       /\ (~\E c \in AuthenticateCalls :
                Authenticate(c[1], c[2], c[3], c[4][1], c[4][2]))
            => logged_in' = logged_in]_vars

\* start() went through after an authenticate that returned SignedIn, and a
\* login() was the last call on the store.
C40_Witness ==
    /\ clientOp = [op |-> "start", raised |-> None]
    /\ session = "session"
    /\ logged_in
    /\ EventCount("ServerOnline") = 1
    /\ lastOp.op = "login"

====
